---- MODULE Spec2Model ----
(***************************************************************************)
(* A model of the leap/dagrt time-integration virtual machine:             *)
(*   - NumpyInterpreter (src/leap/vm/exec_numpy.py): set_up, initialize,   *)
(*     run and the exec_* instruction handlers;                            *)
(*   - the execution controller and the code builder it is driven by       *)
(*     (leap.vm.language), which are modelled from the design document;    *)
(*   - the kind inference (src/leap/vm/codegen/data.py): unify,            *)
(*     SymbolKindTable, KindInferenceMapper and SymbolKindFinder.          *)
(* Time values are exact integers (a grid of half units stands for the     *)
(* floating point numbers of the tests: 0, 1, 2.5 become 0, 2, 5).         *)
(***************************************************************************)
EXTENDS Integers, Sequences, FiniteSets, TLC

VARIABLES
    code,       \* NumpyInterpreter.code: the code object being interpreted
    state,      \* NumpyInterpreter.state: the mutable state mapping
    plan,       \* controller: instructions scheduled and not yet executed
    executed,   \* controller: instructions executed since the last reset
    pc,         \* position of the interpreter (see Positions)
    t_end,      \* argument of the current run call
    last_step,  \* local variable of run
    events,     \* events run has yielded to its consumer in the current call
    error,      \* the exception that reached the interpreter's caller
    trace,      \* history: instruction ids in execution order since reset
    pre,        \* history: the state mapping when the current attempt started
    attempts,   \* history: step attempts started in the current run call
    failed,     \* history: fail-step attempts so far in the current run call
    phase,      \* history: the plan the controller was last reset for
    taken,      \* history: <<id, value>> of the conditions evaluated since reset
    calls,      \* history: calls of run made on this interpreter
    args,       \* history: the arguments set_up was called with
    kind_a,     \* unify: first argument
    kind_b,     \* unify: second argument
    unified,    \* unify: what the call returned or raised
    program,    \* SymbolKindFinder: the (function, instruction) pairs given
    insn_queue,             \* SymbolKindFinder.__call__: primary queue
    insn_queue_push_buffer, \* SymbolKindFinder.__call__: overflow buffer
    made_progress,          \* SymbolKindFinder.__call__: local flag
    result,     \* SymbolKindFinder.__call__: the SymbolKindTable being built
    solver,     \* position of SymbolKindFinder.__call__
    pass_size,  \* history: instructions left when the current pass started
    recorded,   \* history: calls of set that returned in the current pass
    kim_expr,          \* KindInferenceMapper: the expression it is called on
    kim_global_table,  \* KindInferenceMapper.global_table
    kim_local_table,   \* KindInferenceMapper.local_table
    kim_kind,          \* what the mapper returned or raised
    called,         \* expression layer: the function that is called
    arg_expression,     \* argument: the expression
    arg_template,       \* argument of match: the template
    arg_free_variables, \* argument: the names of the free variables
    arg_context,        \* argument of the evaluation: names to values
    arg_functions,      \* argument of the evaluation: names to functions
    ret_new_expression, \* what collapse_constants returned
    ret_assignments,    \* what collapse_constants passed to assign_func
    ret_value,          \* what the evaluation returned
    ret_mapping,        \* what match returned
    raised_exception,   \* the exception the call raised ("" for none)
    returned        \* the call has ended

\* the variables of SymbolKindFinder.__call__
svars == <<program, insn_queue, insn_queue_push_buffer, made_progress,
           result, solver, pass_size, recorded>>

\* the variables of the kind inference (src/leap/vm/codegen/data.py)
mvars == <<kim_expr, kim_global_table, kim_local_table, kim_kind>>
kvars == <<kind_a, kind_b, unified, svars, mvars>>

\* the variables of the interpreter (src/leap/vm/exec_numpy.py)
ivars == <<code, state, plan, executed, pc, t_end, last_step, events, error,
           trace, pre, attempts, failed, phase, taken, calls, args>>

\* the variables of the expression layer (src/dagrt/expression.py)
xvars == <<called, arg_expression, arg_template, arg_free_variables,
           arg_context, arg_functions, ret_new_expression, ret_assignments,
           ret_value, ret_mapping, raised_exception, returned>>

vars == <<ivars, kvars, xvars>>

-----------------------------------------------------------------------------
(* Bounds of the model.                                                    *)

MaxInsns == 3       \* instructions of a generic dependency graph
MaxT == 3           \* largest t_end passed to run
MaxDt == 2          \* largest dt_start passed to set_up
MaxAttempts == 6    \* step attempts counted in one run call
MaxCalls == 2       \* calls of run on one interpreter
MaxOrder == 3       \* longest history of a right-hand side component

\* the events of a call that are kept: these many, the latest ones
EventWindow == MaxAttempts * (MaxInsns + 1)

-----------------------------------------------------------------------------
(* Expressions (pymbolic trees), reduced to the forms the plans use.       *)

Const(c) == [op |-> "const", v |-> "", w |-> "", c |-> c]
Var(n) == [op |-> "var", v |-> n, w |-> "", c |-> 0]
Sum(n, m) == [op |-> "sum", v |-> n, w |-> m, c |-> 0]
SumC(n, c) == [op |-> "sumc", v |-> n, w |-> "", c |-> c]
Comparison(n, rel, c) == [op |-> rel, v |-> n, w |-> "", c |-> c]

\* the variables an expression reads
Reads(e) ==
    CASE e.op = "const" -> {}
      [] e.op = "sum" -> {e.v, e.w}
      [] OTHER -> {e.v}

\* EvaluationMapper raises on a name that is not in the state mapping
Evaluable(e, st) == Reads(e) \subseteq DOMAIN st

\* EvaluationMapper(self.state)(e)
Eval(e, st) ==
    CASE e.op = "const" -> e.c
      [] e.op = "var" -> st[e.v]
      [] e.op = "sum" -> st[e.v] + st[e.w]
      [] e.op = "sumc" -> st[e.v] + e.c
      [] e.op = "==" -> st[e.v] = e.c
      [] e.op = "<" -> st[e.v] < e.c
      [] e.op = ">" -> st[e.v] > e.c
      [] e.op = ">=" -> st[e.v] >= e.c

-----------------------------------------------------------------------------
(* Instructions: id, dependencies and a payload.                           *)

NoExpr == Const(0)

\* the fields of every instruction; a variant sets the ones it has
Instruction(id, kind, deps) ==
    [id |-> id, kind |-> kind, depends_on |-> deps,
     assignee |-> "", expression |-> NoExpr, condition |-> NoExpr,
     then_depends_on |-> {}, else_depends_on |-> {},
     time |-> NoExpr, time_id |-> "", component_id |-> ""]

AssignExpression(id, deps, assignee, expression) ==
    [Instruction(id, "AssignExpression", deps) EXCEPT
        !.assignee = assignee, !.expression = expression]

If(id, deps, condition, then_deps, else_deps) ==
    [Instruction(id, "If", deps) EXCEPT
        !.condition = condition, !.then_depends_on = then_deps,
        !.else_depends_on = else_deps]

FailStep(id, deps) == Instruction(id, "FailStep", deps)

Raise(id, deps) == Instruction(id, "Raise", deps)

\* yield_state(expression, component_id, time, time_id)
ReturnState(id, deps, time, component_id, expression) ==
    [Instruction(id, "ReturnState", deps) EXCEPT
        !.expression = expression, !.time = time, !.time_id = "final",
        !.component_id = component_id]

-----------------------------------------------------------------------------
(* Code objects: instructions by id and the two goal sets.                 *)

InsnMap(S) == [i \in {r.id : r \in S} |-> CHOOSE r \in S : r.id = i]

\* batches: the builder batches the instructions came from (history)
BuiltCode(S, init_dep_on, step_dep_on, batches) ==
    [insns |-> InsnMap(S), initialization_dep_on |-> init_dep_on,
     step_dep_on |-> step_dep_on, batches |-> batches]

TimeIntegratorCode(S, init_dep_on, step_dep_on) ==
    BuiltCode(S, init_dep_on, step_dep_on, {})

\* every dependency set an instruction carries
AllDeps(insn) ==
    insn.depends_on \cup insn.then_depends_on \cup insn.else_depends_on

\* the instruction graph has no cycle: ids can be ranked so that every
\* dependency (branch sets included) has a smaller rank than its user
RECURSIVE Peel(_, _)
Peel(c, left) ==
    LET free == {i \in left : AllDeps(c.insns[i]) \cap left = {}}
    IN  IF free = {} THEN left ELSE Peel(c, left \ free)

Acyclic(c) == Peel(c, DOMAIN c.insns) = {}

\* the fixed-step plan: <t> := <t> + <dt>
AdvanceT(id, deps) == AssignExpression(id, deps, "<t>", Sum("<t>", "<dt>"))

\* Generic dependency graphs, run as initialization plans: instruction i
\* (1..MaxInsns) depends on any set of earlier instructions, the goal set
\* is any set of instructions, the step plan is the fixed step.
GenericIds == 1..MaxInsns

GenericCodes ==
    {TimeIntegratorCode(
        {AssignExpression(i, d[i], "x", Const(i)) : i \in GenericIds}
            \cup {AdvanceT(0, {})},
        goals, {0}) :
     d \in {f \in [GenericIds -> SUBSET GenericIds] :
                \A i \in GenericIds : f[i] \subseteq 1..(i - 1)},
     goals \in SUBSET GenericIds}

\* Conditional plans (test_SimpleCodeBuilder_condition): x := c; a branch
\* on x == 1, which may or may not wait for the assignment; x := 2 and
\* x := 99 placed in the then-set or the else-set.
BranchSets ==
    {b \in (SUBSET {3, 4}) \X (SUBSET {3, 4}) : b[1] \cap b[2] = {}}

ConditionalCodes ==
    {TimeIntegratorCode(
        {AssignExpression(1, {}, "x", Const(c)),
         If(2, d, Comparison("x", "==", 1), b[1], b[2]),
         AssignExpression(3, {}, "x", Const(2)),
         AssignExpression(4, {}, "x", Const(99)),
         AdvanceT(0, {})},
        {2}, {0}) :
     c \in {0, 1}, d \in {{}, {1}}, b \in BranchSets}

\* An adaptive step, as the embedded Runge-Kutta methods emit it: a step
\* that is too large shrinks <dt> and fails, any other step is accepted,
\* reports the state and advances <t>.
AdaptiveCode ==
    TimeIntegratorCode(
        {If(1, {}, Comparison("<dt>", ">", 1), {3}, {5}),
         AssignExpression(2, {}, "<dt>", SumC("<dt>", -1)),
         FailStep(3, {2}),
         ReturnState(4, {}, Sum("<t>", "<dt>"), "slow", Var("<state>slow")),
         AdvanceT(5, {4})},
        {}, {1})

\* An adaptive step that reports the state before it decides: a step that
\* is too large is reported all the same, then shrinks <dt> and fails.
EagerAdaptiveCode ==
    TimeIntegratorCode(
        {ReturnState(1, {}, Sum("<t>", "<dt>"), "slow", Var("<state>slow")),
         If(2, {1}, Comparison("<dt>", ">", 1), {4}, {5}),
         AssignExpression(3, {}, "<dt>", SumC("<dt>", -1)),
         FailStep(4, {3}),
         AdvanceT(5, {})},
        {}, {2})

\* A step that updates <state>y, <p>n and <t> and only then decides to
\* fail (twice), with an ephemeral local on the way.
LateFailCode ==
    TimeIntegratorCode(
        {AssignExpression(1, {}, "<p>n", Const(0)),
         AssignExpression(2, {}, "tmp", SumC("<state>slow", 1)),
         AssignExpression(3, {2}, "<state>slow", Var("tmp")),
         AssignExpression(4, {3}, "<t>", Sum("<t>", "<dt>")),
         AssignExpression(5, {4}, "<p>n", SumC("<p>n", 1)),
         If(6, {5}, Comparison("<p>n", "<", 3), {7}, {}),
         FailStep(7, {})},
        {1}, {6})

\* A step that raises a user fault once <t> has reached 1.
RaiseCode ==
    TimeIntegratorCode(
        {AssignExpression(1, {}, "<state>slow", SumC("<state>slow", 1)),
         AssignExpression(2, {}, "tmp", Const(7)),
         If(3, {1, 2}, Comparison("<t>", ">=", 1), {4}, {5}),
         Raise(4, {}),
         AdvanceT(5, {})},
        {}, {3})

\* An initialization plan that signals fail-step.
InitFailCode ==
    TimeIntegratorCode(
        {AssignExpression(1, {}, "<p>n", Const(0)),
         FailStep(2, {1}),
         AdvanceT(0, {})},
        {2}, {0})

\* An initialization plan that raises a user fault.
InitRaiseCode ==
    TimeIntegratorCode({Raise(1, {}), AdvanceT(0, {})}, {1}, {0})

\* A step that reports the state, moves <t> on by a fixed amount, whatever
\* <dt> is, and then signals fail-step.
OvershootFailCode ==
    TimeIntegratorCode(
        {ReturnState(1, {}, Sum("<t>", "<dt>"), "slow", Var("<state>slow")),
         AssignExpression(2, {1}, "<t>", SumC("<t>", 1)),
         FailStep(3, {2})},
        {}, {3})

\* A step that always signals fail-step.
AlwaysFailCode ==
    TimeIntegratorCode({FailStep(1, {})}, {}, {1})

-----------------------------------------------------------------------------
(* The code builder: a batch is the sequence of what was emitted through   *)
(* one builder, instructions and fences, in construction order.            *)

Emit(insn) == [fence |-> FALSE, insn |-> insn]
Fence == [fence |-> TRUE, insn |-> Instruction(0, "Nop", {})]

\* the id of the instruction emitted at position k of a batch
BatchId(base, k) == base + k

\* (variant: a fence adds no dependency)
FenceDeps_None(batch, base, k) == {}

\* what the builder makes the instruction at position k depend on: every
\* instruction of the batch that a fence separates from it
FenceDeps(batch, base, k) ==
    {BatchId(base, j) : j \in {j \in 1..(k - 1) :
        /\ ~batch[j].fence
        /\ \E f \in (j + 1)..(k - 1) : batch[f].fence}}

BatchIds(batch, base) ==
    {BatchId(base, k) : k \in {k \in DOMAIN batch : ~batch[k].fence}}

\* the instructions of a batch
Build(batch, base) ==
    {[batch[k].insn EXCEPT !.id = BatchId(base, k),
                           !.depends_on = FenceDeps(batch, base, k)] :
        k \in {k \in DOMAIN batch : ~batch[k].fence}}

\* the batch as emitted: fences and instruction ids
Emitted(batch, base) ==
    [k \in DOMAIN batch |->
        [fence |-> batch[k].fence, id |-> BatchId(base, k)]]

\* (variant: <t> is advanced first, the states are reported after the fence)
Epilogue_AdvanceFirst ==
    <<Emit(AdvanceT(0, {})),
      Fence,
      Emit(ReturnState(0, {}, Sum("<t>", "<dt>"), "slow",
                       Var("<state>slow"))),
      Emit(ReturnState(0, {}, Sum("<t>", "<dt>"), "fast",
                       Var("<state>fast")))>>

\* emit_epilogue of the two-rate Adams-Bashforth stepper
Epilogue ==
    <<Emit(ReturnState(0, {}, Sum("<t>", "<dt>"), "slow",
                       Var("<state>slow"))),
      Emit(ReturnState(0, {}, Sum("<t>", "<dt>"), "fast",
                       Var("<state>fast"))),
      Fence,
      Emit(AdvanceT(0, {}))>>

\* Batches of assignments and fences in every arrangement, run as the
\* initialization plan; the step plan is the epilogue.
BatchLen == MaxInsns + 1

FencedCodes ==
    {LET batch == [k \in 1..BatchLen |->
                     IF k \in fences THEN Fence
                     ELSE Emit(AssignExpression(0, {}, "x", Const(k)))]
     IN  BuiltCode(Build(batch, 0) \cup Build(Epilogue, BatchLen),
                   BatchIds(batch, 0), BatchIds(Epilogue, BatchLen),
                   {Emitted(batch, 0), Emitted(Epilogue, BatchLen)}) :
     fences \in SUBSET (1..BatchLen)}

\* The histories of a right-hand side component, newest first, as the
\* two-rate Adams-Bashforth stepper names them.
HistoryNames ==
    <<"<p>f2f_n", "<p>f2f_n_minus_1", "<p>f2f_n_minus_2",
      "<p>f2f_n_minus_3">>

\* self.histories[component] for a component of the given order
Histories(order) == SubSeq(HistoryNames, 1, order)

\* the newly computed right-hand side: a value that depends on the time
RightHandSide == SumC("<t>", 10)

\* (variant: the histories are moved oldest last)
history_update_Forward(hist, rhs) ==
    LET n == Len(hist)
    IN  [p \in 1..(2 * n) |->
            IF p % 2 = 1 THEN Fence
            ELSE IF p = 2 * n
                 THEN Emit(AssignExpression(0, {}, hist[1], rhs))
                 ELSE Emit(AssignExpression(0, {}, hist[(p \div 2) + 1],
                                            Var(hist[p \div 2])))]

\* MRABCodeEmitter.history_update: what it emits through the builder, a
\* fence before each move h := h_next over the reversed history, and a
\* fence before the assignment of the new right-hand side
history_update(hist, rhs) ==
    LET n == Len(hist)
        reverse_hist == [i \in 1..n |-> hist[n + 1 - i]]
    IN  [p \in 1..(2 * n) |->
            IF p % 2 = 1 THEN Fence
            ELSE IF p = 2 * n
                 THEN Emit(AssignExpression(0, {}, hist[1], rhs))
                 ELSE Emit(AssignExpression(0, {}, reverse_hist[p \div 2],
                                            Var(reverse_hist[(p \div 2) + 1])))]

\* A step that updates one history of the given order and ends with the
\* epilogue; the initialization fills the history.
HistoryCode(order) ==
    LET hist == Histories(order)
        init == [i \in 1..order |->
                    Emit(AssignExpression(0, {}, hist[i], Const(i)))]
        step == history_update(hist, RightHandSide) \o Epilogue
    IN  BuiltCode(Build(init, 0) \cup Build(step, order),
                  BatchIds(init, 0), BatchIds(step, order),
                  {Emitted(init, 0), Emitted(step, order)})

HistoryCodes == {HistoryCode(order) : order \in 1..MaxOrder}

\* the instructions of S, each depending also on deps: what they read has
\* been written by deps
After(S, deps) == {[r EXCEPT !.depends_on = @ \cup deps] : r \in S}

\* (variant: the Runge-Kutta startup leaves <p>step as it is)
emit_rk_startup_NoIncrement(base) ==
    {AssignExpression(base + 1, {}, "<state>slow", SumC("<state>slow", 1)),
     AssignExpression(base + 2, {}, "<state>fast", SumC("<state>fast", 1)),
     AssignExpression(base + 3, {base + 1, base + 2}, "<p>step",
                      Var("<p>step"))}

\* emit_rk_startup: the substeps of the Runge-Kutta method, one update of
\* each state, then the increment of <p>step
emit_rk_startup(base) ==
    {AssignExpression(base + 1, {}, "<state>slow", SumC("<state>slow", 1)),
     AssignExpression(base + 2, {}, "<state>fast", SumC("<state>fast", 1)),
     AssignExpression(base + 3, {base + 1, base + 2}, "<p>step",
                      SumC("<p>step", 1))}

\* emit_ab_method: MRABCodeEmitter.run ends with the updates of the slow
\* and of the fast state
emit_ab_method(base) ==
    {AssignExpression(base + 1, {}, "<state>slow",
                      Sum("<state>slow", "<dt>")),
     AssignExpression(base + 2, {}, "<state>fast",
                      Sum("<state>fast", "<dt>"))}

\* TwoRateAdamsBashforthTimeStepper.__call__: the initialization sets
\* <p>step, the step takes the startup while <p>step < max_order - 1 and
\* the Adams-Bashforth method after that, and ends with the epilogue. The
\* epilogue is attached to each branch, after what the branch has written.
TwoRateCode(max_order) ==
    LET ids(S) == {r.id : r \in S}
        StartupBase == 10
        MethodBase == 20
        startup == emit_rk_startup(StartupBase)
        method == emit_ab_method(MethodBase)
        startup_end == After(Build(Epilogue, StartupBase + 3), ids(startup))
        method_end == After(Build(Epilogue, MethodBase + 2), ids(method))
        init == {AssignExpression(1, {}, "<p>step", Const(0))}
    IN  IF max_order > 1
        THEN TimeIntegratorCode(
                 init \cup startup \cup startup_end \cup method
                     \cup method_end
                     \cup {If(2, {}, Comparison("<p>step", "<", max_order - 1),
                              ids(startup_end), ids(method_end))},
                 {1}, {2})
        ELSE TimeIntegratorCode(init \cup method \cup method_end,
                                {1}, ids(method_end))

TwoRateCodes == {TwoRateCode(max_order) : max_order \in 1..MaxOrder}

Codes ==
    GenericCodes \cup ConditionalCodes \cup FencedCodes \cup HistoryCodes
        \cup TwoRateCodes
        \cup {AdaptiveCode, EagerAdaptiveCode, LateFailCode, RaiseCode,
              InitFailCode, InitRaiseCode, AlwaysFailCode,
              OvershootFailCode}

-----------------------------------------------------------------------------
(* The execution controller: a state machine over the instruction graph,   *)
(* restricted to the dependency closure of the goals it was given.         *)

\* the instructions ids needs executed first, ids included
RECURSIVE Closure(_, _)
Closure(c, ids) ==
    LET more == ids \cup UNION {c.insns[i].depends_on : i \in ids}
    IN  IF more = ids THEN ids ELSE Closure(c, more)

\* ExecutionController.update_plan: schedule ids and what they depend on
UpdatePlan(c, pl, ex, ids) == pl \cup (Closure(c, ids) \ ex)

\* an instruction is ready when it is scheduled and its dependencies are
\* executed
Ready(c, pl, ex, i) == i \in pl /\ c.insns[i].depends_on \subseteq ex

-----------------------------------------------------------------------------
(* Strings and dicts.                                                      *)

\* st with key k bound to value x (a dict store)
Store(st, k, x) == [n \in DOMAIN st \cup {k} |-> IF n = k THEN x ELSE st[n]]

\* does string s start with prefix p (str.startswith)
StartsWith(s, p) == Len(s) >= Len(p) /\ SubSeq(s, 1, Len(p)) = p

-----------------------------------------------------------------------------
(* Kind inference (src/leap/vm/codegen/data.py): the kinds and unify.      *)

\* the kinds; a field a kind lacks is left empty
Boolean == [tag |-> "Boolean", is_real_valued |-> FALSE, component_id |-> ""]
Scalar(is_real_valued) ==
    [tag |-> "Scalar", is_real_valued |-> is_real_valued, component_id |-> ""]
Array(is_real_valued) ==
    [tag |-> "Array", is_real_valued |-> is_real_valued, component_id |-> ""]
ODEComponent(component_id) ==
    [tag |-> "ODEComponent", is_real_valued |-> FALSE,
     component_id |-> component_id]

\* Python's None where a kind is expected
None == [tag |-> "None", is_real_valued |-> FALSE, component_id |-> ""]

\* unify has not been called
NotCalled ==
    [tag |-> "NotCalled", is_real_valued |-> FALSE, component_id |-> ""]

\* a call that raised exc instead of returning a kind
Raised(exc) == [tag |-> exc, is_real_valued |-> FALSE, component_id |-> ""]

Errors ==
    {"ValueError", "AssertionError", "NotImplementedError", "RuntimeError",
     "TODO"}

IsError(k) == k.tag \in Errors

\* (variant: real-valued when either argument is)
BothReal_Either(a, b) == a.is_real_valued \/ b.is_real_valued

\* (variant: real-valued when the first argument is)
BothReal_First(a, b) == a.is_real_valued

\* not (not kind_a.is_real_valued or not kind_b.is_real_valued)
BothReal(a, b) == ~(~a.is_real_valued \/ ~b.is_real_valued)

unify(a, b) ==
    IF a = None THEN b
    ELSE IF b = None THEN a
    ELSE IF a.tag = "Boolean" THEN Raised("ValueError")
    ELSE IF b.tag = "Boolean" THEN Raised("ValueError")
    ELSE IF a.tag = "ODEComponent"
    THEN IF b.tag \notin {"ODEComponent", "Scalar"}
         THEN Raised("AssertionError")
         ELSE IF b.tag = "ODEComponent" /\ a.component_id # b.component_id
         THEN Raised("ValueError")
         ELSE a
    ELSE IF a.tag = "Array"
    THEN IF b.tag \notin {"Array", "Scalar"}
         THEN Raised("AssertionError")
         ELSE Array(BothReal(a, b))
    ELSE IF a.tag = "Scalar"
    THEN IF b.tag = "ODEComponent" THEN b
         ELSE IF b.tag = "Array"
         THEN Array(BothReal(a, b))
         ELSE IF b.tag # "Scalar" THEN Raised("AssertionError")
         ELSE Scalar(BothReal(a, b))
    ELSE Raised("NotImplementedError")

-----------------------------------------------------------------------------
(* Kind inference: KindInferenceMapper on the expression forms of the      *)
(* model, and on products, powers, complex literals and calls.             *)

Product(n, m) == [op |-> "product", v |-> n, w |-> m, c |-> 0]
Power(n, m) == [op |-> "power", v |-> n, w |-> m, c |-> 0]
ComplexConst == [op |-> "complex", v |-> "", w |-> "", c |-> 0]
Call(f) == [op |-> "call", v |-> f, w |-> "", c |-> 0]
Ratio(n, m) == [op |-> "quotient", v |-> n, w |-> m, c |-> 0]
Subscript(n) == [op |-> "subscript", v |-> n, w |-> "", c |-> 0]

\* the function registry: the result kind each registered function declares
FunctionRegistry == [f \in {"<func>rhs"} |-> ODEComponent("slow")]

\* the exception that sends an instruction to the next pass
UnableToInferKind == Raised("UnableToInferKind")

\* k stands for a raised exception, not for a returned value
IsException(k) == IsError(k) \/ k = UnableToInferKind

map_constant(e) == IF e.op = "complex" THEN Scalar(FALSE) ELSE Scalar(TRUE)

map_variable(name, global_table, local_table) ==
    IF name \in DOMAIN global_table THEN global_table[name]
    ELSE IF name \in DOMAIN local_table THEN local_table[name]
    ELSE UnableToInferKind

\* the operands of an expression
Children(e) ==
    CASE e.op \in {"sum", "product", "quotient"} -> <<Var(e.v), Var(e.w)>>
      [] e.op = "sumc" -> <<Var(e.v), Const(e.c)>>
      [] OTHER -> <<>>

\* rec on an operand: a variable or a literal
RecLeaf(e, global_table, local_table) ==
    IF e.op = "var" THEN map_variable(e.v, global_table, local_table)
    ELSE map_constant(e)

\* the loop of map_sum: operands that cannot be inferred yet are skipped
RECURSIVE SumLoop(_, _, _, _)
SumLoop(kind, children, global_table, local_table) ==
    IF children = <<>> THEN kind
    ELSE LET ch_kind == RecLeaf(Head(children), global_table, local_table)
         IN  IF ch_kind = UnableToInferKind
             THEN SumLoop(kind, Tail(children), global_table, local_table)
             ELSE IF IsError(unify(kind, ch_kind)) THEN unify(kind, ch_kind)
             ELSE SumLoop(unify(kind, ch_kind), Tail(children),
                          global_table, local_table)

map_sum(e, global_table, local_table) ==
    LET kind == SumLoop(None, Children(e), global_table, local_table)
    IN  IF kind = None THEN UnableToInferKind ELSE kind

\* the loop of map_product_like: every operand has to be inferable
RECURSIVE map_product_like(_, _, _, _)
map_product_like(kind, children, global_table, local_table) ==
    IF children = <<>> THEN kind
    ELSE LET ch_kind == RecLeaf(Head(children), global_table, local_table)
         IN  IF IsException(ch_kind) THEN ch_kind
             ELSE IF IsError(unify(kind, ch_kind)) THEN unify(kind, ch_kind)
             ELSE map_product_like(unify(kind, ch_kind), Tail(children),
                                   global_table, local_table)

\* map_power checks the exponent and returns nothing
map_power(e, global_table, local_table) ==
    LET exponent == map_variable(e.w, global_table, local_table)
    IN  IF IsException(exponent) THEN exponent
        ELSE IF exponent.tag # "Scalar" THEN Raised("ValueError")
        ELSE None

\* map_subscript: the aggregate has to be an array
map_subscript(e, global_table, local_table) ==
    LET agg_kind == map_variable(e.v, global_table, local_table)
    IN  IF IsException(agg_kind) THEN agg_kind
        ELSE IF agg_kind.tag # "Array" THEN Raised("ValueError")
        ELSE Scalar(agg_kind.is_real_valued)

\* KindInferenceMapper(global_table, local_table, registry)(e): a kind,
\* None, or the exception raised
KindInferenceMapper(e, global_table, local_table) ==
    CASE e.op \in {"const", "complex"} -> map_constant(e)
      [] e.op = "var" -> map_variable(e.v, global_table, local_table)
      [] e.op \in {"sum", "sumc"} -> map_sum(e, global_table, local_table)
      [] e.op \in {"product", "quotient"} ->
            map_product_like(None, Children(e), global_table, local_table)
      [] e.op = "subscript" -> map_subscript(e, global_table, local_table)
      [] e.op = "power" -> map_power(e, global_table, local_table)
      [] e.op = "call" -> FunctionRegistry[e.v]
      [] OTHER -> Boolean  \* map_comparison

-----------------------------------------------------------------------------
(* SymbolKindTable.                                                        *)

\* names kept in the global table: integration variables, state
\* components and parameters
is_state_variable(name) ==
    \/ name \in {"<t>", "<dt>"}
    \/ StartsWith(name, "<state>")
    \/ StartsWith(name, "<p>")

NoTable == [n \in {} |-> None]

\* per_function_table.get(func_name, {})
LocalTable(table, func_name) ==
    IF func_name \in DOMAIN table.per_function_table
    THEN table.per_function_table[func_name] ELSE NoTable

\* (variant: a second set for a name overwrites the kind)
Record_Overwrite(tbl, name, kind) == Store(tbl, name, kind)

\* the body of set on the table chosen: the table after it, unchanged when
\* the name is in it
Record(tbl, name, kind) ==
    IF name \in DOMAIN tbl THEN tbl ELSE Store(tbl, name, kind)

\* set raises: the name is in the table with another kind
Inconsistent(tbl, name, kind) == name \in DOMAIN tbl /\ tbl[name] # kind

\* SymbolKindTable.set(func_name, name, kind): the table after the call
\* and whether it raised
set(table, func_name, name, kind) ==
    IF is_state_variable(name)
    THEN [table |-> [table EXCEPT !.global_table =
                        Record(table.global_table, name, kind)],
          raised |-> Inconsistent(table.global_table, name, kind)]
    ELSE LET tbl == LocalTable(table, func_name)
         IN  [table |-> [table EXCEPT !.per_function_table =
                            Store(table.per_function_table, func_name,
                                  Record(tbl, name, kind))],
              raised |-> Inconsistent(tbl, name, kind)]

\* SymbolKindTable.get(func_name, name): the kind, or the KeyError raised
get(table, func_name, name) ==
    LET tbl == IF is_state_variable(name) THEN table.global_table
               ELSE LocalTable(table, func_name)
    IN  IF name \in DOMAIN tbl THEN tbl[name] ELSE Raised("KeyError")

\* SymbolKindTable(): the table as its constructor leaves it
SymbolKindTable ==
    [global_table |-> [n \in {"<t>", "<dt>"} |-> Scalar(TRUE)],
     per_function_table |-> [f \in {} |-> [n \in {} |-> None]]]

\* SymbolKindFinder has not been called
SolverIdle ==
    /\ program = <<>>
    /\ insn_queue = <<>>
    /\ insn_queue_push_buffer = <<>>
    /\ made_progress = FALSE
    /\ result = SymbolKindTable
    /\ solver = "idle"
    /\ pass_size = 0
    /\ recorded = 0

\* no call of the kind inference is under way
\* KindInferenceMapper has not been called on its own
MapperIdle ==
    /\ kim_expr = NoExpr
    /\ kim_global_table = SymbolKindTable.global_table
    /\ kim_local_table = NoTable
    /\ kim_kind = NotCalled

KindsIdle ==
    /\ kind_a = None
    /\ kind_b = None
    /\ unified = NotCalled
    /\ SolverIdle
    /\ MapperIdle

-----------------------------------------------------------------------------
(* The expression layer (src/dagrt/expression.py): expression trees, their *)
(* evaluation, constant collapsing and matching.  A tree is a record of    *)
(* one shape: children holds the operands (the positional parameters of a  *)
(* call), kw_parameters the keyword parameters of a call in the order they *)
(* were written, name the name of a variable or of the callee.             *)

Node(op, value, name, children, kw_parameters) ==
    [op |-> op, value |-> value, name |-> name, children |-> children,
     kw_parameters |-> kw_parameters]

\* the pymbolic primitives the layer works on
Literal(c) == Node("constant", c, "", <<>>, <<>>)
Variable(name) == Node("variable", 0, name, <<>>, <<>>)
SumOf(children) == Node("sum", 0, "", children, <<>>)
ProductOf(children) == Node("product", 0, "", children, <<>>)
Quotient(numerator, denominator) ==
    Node("quotient", 0, "", <<numerator, denominator>>, <<>>)
PowerOf(base, exponent) == Node("power", 0, "", <<base, exponent>>, <<>>)
CallOf(function, parameters) == Node("call", 0, function, parameters, <<>>)
CallWithKwargs(function, parameters, kw_parameters) ==
    Node("call_with_kwargs", 0, function, parameters, kw_parameters)

\* one keyword parameter of a call
Keyword(key, val) == [key |-> key, val |-> val]

\* the expression given where none is needed
NoExpression == Node("none", 0, "", <<>>, <<>>)

\* Values of an evaluation: exact numbers num/den in lowest terms (they
\* stand for Python's numbers under true division), a function of the
\* function table, Python's None, or the exception the evaluation raised.
Value(tag, num, den, name) ==
    [tag |-> tag, num |-> num, den |-> den, name |-> name]

RECURSIVE GCD(_, _)
GCD(a, b) == IF b = 0 THEN a ELSE GCD(b, a % b)

Abs(n) == IF n < 0 THEN -n ELSE n

Number(n, d) ==
    LET g == GCD(Abs(n), Abs(d))
        s == IF d < 0 THEN -1 ELSE 1
    IN  Value("number", (s * n) \div g, (s * d) \div g, "")

FunctionValue(f) == Value("function", 0, 1, f)
NoValue == Value("None", 0, 1, "")
Failure(exc) == Value("raised", 0, 1, exc)

RECURSIVE IntPow(_, _)
IntPow(n, k) == IF k = 0 THEN 1 ELSE n * IntPow(n, k - 1)

\* a ** b for an integer exponent b (the exponents of the model's
\* expressions are integers)
Pow(a, b) ==
    CASE b.den = 1 /\ b.num >= 0 ->
            Number(IntPow(a.num, b.num), IntPow(a.den, b.num))
      [] b.den = 1 /\ b.num < 0 /\ a.num = 0 -> Failure("ZeroDivisionError")
      [] b.den = 1 /\ b.num < 0 /\ a.num # 0 ->
            Number(IntPow(a.den, -b.num), IntPow(a.num, -b.num))

\* Python's a + b, a * b, a / b, a ** b on two evaluated operands; an
\* exception raised by an operand propagates, the left one first
Arith(op, a, b) ==
    CASE a.tag = "raised" -> a
      [] b.tag = "raised" -> b
      [] a.tag # "number" \/ b.tag # "number" -> Failure("TypeError")
      [] op = "sum" -> Number(a.num * b.den + b.num * a.den, a.den * b.den)
      [] op = "product" -> Number(a.num * b.num, a.den * b.den)
      [] op = "quotient" ->
            IF b.num = 0 THEN Failure("ZeroDivisionError")
            ELSE Number(a.num * b.den, a.den * b.num)
      [] op = "power" -> Pow(a, b)

\* sum(values) and product(values): a left fold from 0 and from 1
RECURSIVE Reduce(_, _, _, _)
Reduce(op, values, k, acc) ==
    IF k > Len(values) THEN acc
    ELSE Reduce(op, values, k + 1, Arith(op, acc, values[k]))

\* the first exception among values, or none when there is none
FirstFailure(values, none) ==
    IF \E k \in DOMAIN values : values[k].tag = "raised"
    THEN values[CHOOSE k \in DOMAIN values :
                    /\ values[k].tag = "raised"
                    /\ \A j \in 1..(k - 1) : values[j].tag # "raised"]
    ELSE none

\* the functions a function table can hold: total adds up its positional
\* and its keyword arguments
Apply(function, parameters, kw_parameters) ==
    Reduce("sum", parameters \o kw_parameters, 1, Number(0, 1))

\* (variant: the function table is looked up first)
EvaluationMapper_map_variable_FunctionsFirst(expr, context, functions) ==
    IF expr.name \in DOMAIN functions THEN functions[expr.name]
    ELSE IF expr.name \in DOMAIN context THEN context[expr.name]
    ELSE NoValue

\* EvaluationMapper.map_variable
EvaluationMapper_map_variable(expr, context, functions) ==
    IF expr.name \in DOMAIN context THEN context[expr.name]
    ELSE IF expr.name \in DOMAIN functions THEN functions[expr.name]
    ELSE NoValue

\* EvaluationMapper(context, functions)(expr)
RECURSIVE EvaluationMapper(_, _, _)
EvaluationMapper(expr, context, functions) ==
    LET rec(e) == EvaluationMapper(e, context, functions)
        operands == [k \in DOMAIN expr.children |-> rec(expr.children[k])]
        keywords == [k \in DOMAIN expr.kw_parameters |->
                        rec(expr.kw_parameters[k].val)]
    IN  CASE expr.op = "constant" -> Number(expr.value, 1)
          [] expr.op = "variable" ->
                EvaluationMapper_map_variable(expr, context, functions)
          [] expr.op = "sum" -> Reduce("sum", operands, 1, Number(0, 1))
          [] expr.op = "product" ->
                Reduce("product", operands, 1, Number(1, 1))
          [] expr.op \in {"quotient", "power"} ->
                Arith(expr.op, operands[1], operands[2])
          [] expr.op \in {"call", "call_with_kwargs"} ->
                \* map_generic_call: the keyword arguments are evaluated
                \* when the dict is built, the positional ones at the call
                IF expr.name \notin DOMAIN functions
                THEN Failure("ValueError")
                ELSE LET raised == FirstFailure(keywords \o operands,
                                                NoValue)
                     IN  IF raised # NoValue THEN raised
                         ELSE Apply(functions[expr.name], operands,
                                    keywords)

\* a dict without keys
EmptyDict == [n \in {} |-> NoExpression]

\* _is_atomic
is_atomic(expr) == expr.op \in {"variable", "constant"}

\* _ConstantFindingMapper: is_constant[expr], TRUE when no free variable
\* lies beneath expr (the callee of a call counts as a variable)
RECURSIVE is_constant(_, _)
is_constant(expr, free) ==
    CASE expr.op = "constant" -> TRUE
      [] expr.op = "variable" -> expr.name \notin free
      [] OTHER ->
            /\ expr.op \in {"call", "call_with_kwargs"} => expr.name \notin free
            /\ \A k \in DOMAIN expr.children :
                   is_constant(expr.children[k], free)
            /\ \A k \in DOMAIN expr.kw_parameters :
                   is_constant(expr.kw_parameters[k].val, free)

\* _ConstantFindingMapper.combine reduces the classifications of the
\* children without an initial value: it raises on a sum or product that
\* has no children
RECURSIVE CombineRaises(_)
CombineRaises(expr) ==
    \/ expr.op \in {"sum", "product"} /\ expr.children = <<>>
    \/ \E k \in DOMAIN expr.children : CombineRaises(expr.children[k])

\* the names new_var_func hands out, in the order of its calls
FreshNames == <<"<c1>", "<c2>", "<c3>", "<c4>">>

\* new_var_func(): every name handed out so far is a key of assignments
new_var_func(assignments) == FreshNames[Cardinality(DOMAIN assignments) + 1]

\* what a method of _ExpressionCollapsingMapper leaves: the expression it
\* returned, self.assignments, and the exception it raised ("" for none)
Collapsed(expr, assignments, raised) ==
    [expr |-> expr, assignments |-> assignments, raised |-> raised]

RECURSIVE Collapsing_rec(_, _, _)
RECURSIVE Collapsing_dispatch(_, _, _)
RECURSIVE Collapsing_each(_, _, _, _, _)
RECURSIVE map_commut_assoc(_, _, _)

\* [self.rec(child) for child in children], from the k-th child on
Collapsing_each(children, k, free, done, assignments) ==
    IF k > Len(children) THEN Collapsed(done, assignments, "")
    ELSE LET r == Collapsing_rec(children[k], free, assignments)
         IN  IF r.raised # "" THEN r
             ELSE Collapsing_each(children, k + 1, free,
                                  Append(done, r.expr), r.assignments)

\* _ExpressionCollapsingMapper.map_commut_assoc, combine_func being the
\* constructor of expr's own class
map_commut_assoc(expr, free, assignments) ==
    LET combine_func(children) == [expr EXCEPT !.children = children]
        constants ==
            SelectSeq(expr.children, LAMBDA child : is_constant(child, free))
        r == Collapsing_each(
                 SelectSeq(expr.children,
                           LAMBDA child : ~is_constant(child, free)),
                 1, free, <<>>, assignments)
        non_constants == r.expr
        inline == Len(constants) = 1 /\ is_atomic(constants[1])
        new_var == new_var_func(r.assignments)
        folded_constant == IF inline THEN constants[1] ELSE Variable(new_var)
        assigned ==
            IF inline THEN r.assignments
            ELSE Store(r.assignments, new_var,
                       IF Len(constants) = 1 THEN constants[1]
                       ELSE combine_func(constants))
    IN  CASE r.raised # "" -> r
          [] r.raised = "" /\ constants = <<>> /\ non_constants = <<>> ->
                Collapsed(NoExpression, r.assignments, "AssertionError")
          [] r.raised = "" /\ constants = <<>> /\ Len(non_constants) > 1 ->
                Collapsed(combine_func(non_constants), r.assignments, "")
          [] r.raised = "" /\ constants = <<>> /\ Len(non_constants) = 1 ->
                \* return self.non_constants[0]: the mapper has no such
                \* attribute
                Collapsed(NoExpression, r.assignments, "AttributeError")
          [] r.raised = "" /\ constants # <<>> /\ non_constants # <<>> ->
                Collapsed(combine_func(<<folded_constant>> \o non_constants),
                          assigned, "")
          [] r.raised = "" /\ constants # <<>> /\ non_constants = <<>> ->
                Collapsed(folded_constant, assigned, "")

\* IdentityMapper's dispatch on the class of expr: map_sum and map_product
\* are the mapper's own, the other classes are rebuilt from their mapped
\* children
Collapsing_dispatch(expr, free, assignments) ==
    CASE is_atomic(expr) -> Collapsed(expr, assignments, "")
      [] expr.op \in {"sum", "product"} ->
            map_commut_assoc(expr, free, assignments)
      [] OTHER ->
            LET r == Collapsing_each(expr.children, 1, free, <<>>,
                                     assignments)
            IN  IF r.raised # "" THEN r
                ELSE Collapsed([expr EXCEPT !.children = r.expr],
                               r.assignments, "")

\* _ExpressionCollapsingMapper.rec
Collapsing_rec(expr, free, assignments) ==
    IF is_atomic(expr) \/ ~is_constant(expr, free)
    THEN Collapsing_dispatch(expr, free, assignments)
    ELSE LET new_var == new_var_func(assignments)
         IN  Collapsed(Variable(new_var), Store(assignments, new_var, expr),
                       "")

\* _ExpressionCollapsingMapper.__call__: the classification, then the
\* dispatch on the class of the whole expression
ExpressionCollapsingMapper(expr, free) ==
    IF CombineRaises(expr) THEN Collapsed(NoExpression, EmptyDict, "TypeError")
    ELSE Collapsing_dispatch(expr, free, EmptyDict)

\* (variant: assign_func is called as soon as the mapper makes an entry)
collapse_constants_AssignAsFound(expression, free) ==
    ExpressionCollapsingMapper(expression, free)

\* collapse_constants: assign_func is called for every entry of the
\* variable map once the mapper has returned, and not at all when it raised
collapse_constants(expression, free) ==
    LET r == ExpressionCollapsingMapper(expression, free)
    IN  IF r.raised # "" THEN Collapsed(NoExpression, EmptyDict, r.raised)
        ELSE r

\* the context after the assignments assign_func received were executed
Executed(assignments, context, functions) ==
    [n \in DOMAIN context \cup DOMAIN assignments |->
        IF n \in DOMAIN assignments
        THEN EvaluationMapper(assignments[n], context, functions)
        ELSE context[n]]

\* the order of the keyword names (Python's order of strings)
KeywordNames == <<"p", "q">>

\* [val for key, val in sorted(kw_parameters.items(), key=itemgetter(0))]
SortedByKey(kw_parameters) ==
    LET present ==
            SelectSeq(KeywordNames,
                      LAMBDA key : \E k \in DOMAIN kw_parameters :
                                       kw_parameters[k].key = key)
    IN  [i \in DOMAIN present |->
            kw_parameters[CHOOSE k \in DOMAIN kw_parameters :
                              kw_parameters[k].key = present[i]].val]

\* set(kw_parameters.keys())
KeySet(kw_parameters) ==
    {kw_parameters[k].key : k \in DOMAIN kw_parameters}

\* unify_many(urecs, UnificationRecord([(lhs, rhs)])): the records that
\* stay consistent when lhs is bound to rhs
unify_many(urecs, lhs, rhs) ==
    LET consistent(urec) == lhs \in DOMAIN urec => urec[lhs] = rhs
        kept == SelectSeq(urecs, consistent)
    IN  [k \in DOMAIN kept |-> Store(kept[k], lhs, rhs)]

RECURSIVE Unifier_rec(_, _, _, _)
RECURSIVE Unifier_zip(_, _, _, _, _)

\* for expr_param, other_param in zip(...): urecs = self.rec(...)
Unifier_zip(expr_parameters, other_parameters, k, urecs, free) ==
    IF k > Len(expr_parameters) \/ k > Len(other_parameters) THEN urecs
    ELSE Unifier_zip(expr_parameters, other_parameters, k + 1,
                     Unifier_rec(expr_parameters[k], other_parameters[k],
                                 urecs, free),
                     free)

\* (variant: the keyword arguments are paired in the order they were
\* written)
KeywordValues_AsWritten(kw_parameters) ==
    [k \in DOMAIN kw_parameters |-> kw_parameters[k].val]

\* the keyword arguments of a call in the order map_call pairs them
KeywordValues(kw_parameters) == SortedByKey(kw_parameters)

\* _UnidirectionalUnifierWithFunctionCalls.map_call
Unifier_map_call(expr, other, urecs, free) ==
    IF expr.op # other.op THEN <<>>
    ELSE IF expr.name # other.name THEN <<>>
    ELSE IF Len(expr.children) # Len(other.children) THEN <<>>
    ELSE IF /\ expr.op = "call_with_kwargs"
            /\ KeySet(expr.kw_parameters) # KeySet(other.kw_parameters)
         THEN <<>>
    ELSE Unifier_zip(
             expr.children \o KeywordValues(expr.kw_parameters),
             other.children \o KeywordValues(other.kw_parameters),
             1, urecs, free)

\* the unifier's dispatch on the class of the template: a constant matches
\* its equal, a variable of the free names is bound, any other variable
\* matches itself, a quotient or power matches operand by operand
Unifier_rec(expr, other, urecs, free) ==
    CASE expr.op = "constant" -> IF expr = other THEN urecs ELSE <<>>
      [] expr.op = "variable" ->
            IF expr.name \in free THEN unify_many(urecs, expr.name, other)
            ELSE IF other = expr THEN urecs ELSE <<>>
      [] expr.op \in {"call", "call_with_kwargs"} ->
            Unifier_map_call(expr, other, urecs, free)
      [] expr.op \in {"quotient", "power"} ->
            IF expr.op # other.op THEN <<>>
            ELSE Unifier_zip(expr.children, other.children, 1, urecs, free)

\* what match leaves: the mapping it returned and the exception it raised
Matched(mapping, raised) == [mapping |-> mapping, raised |-> raised]

\* match(template, expression, free_variable_names)
match(template, expression, free_variable_names) ==
    LET records == Unifier_rec(template, expression, <<EmptyDict>>,
                               free_variable_names)
    IN  IF records = <<>> THEN Matched(EmptyDict, "ValueError")
        ELSE Matched(records[1], "")

\* no call of the expression layer is under way
ExpressionIdle ==
    /\ called = ""
    /\ arg_expression = NoExpression
    /\ arg_template = NoExpression
    /\ arg_free_variables = {}
    /\ arg_context = [n \in {} |-> NoValue]
    /\ arg_functions = [n \in {} |-> NoValue]
    /\ ret_new_expression = NoExpression
    /\ ret_assignments = EmptyDict
    /\ ret_value = NoValue
    /\ ret_mapping = EmptyDict
    /\ raised_exception = ""
    /\ returned = FALSE

-----------------------------------------------------------------------------
(* NumpyInterpreter.                                                       *)


\* (variant: the <p> keys are not kept)
Permanent_NoParameters(name) ==
    StartsWith(name, "<state>") \/ name \in {"<t>", "<dt>"}

\* the keys the finally clause of run keeps
Permanent(name) ==
    \/ StartsWith(name, "<state>")
    \/ StartsWith(name, "<p>")
    \/ name \in {"<t>", "<dt>"}

\* run's finally clause: discard non-permanent per-step state
Discard(st) == [n \in {k \in DOMAIN st : Permanent(k)} |-> st[n]]

\* the events run yields; a field an event type lacks is left empty
StateComputed(t, time_id, component_id, state_component) ==
    [type |-> "StateComputed", t |-> t, time_id |-> time_id,
     component_id |-> component_id, state_component |-> state_component]
StepCompleted(t) ==
    [type |-> "StepCompleted", t |-> t, time_id |-> "",
     component_id |-> "", state_component |-> 0]
StepFailed(t) ==
    [type |-> "StepFailed", t |-> t, time_id |-> "",
     component_id |-> "", state_component |-> 0]

EmptyState == [n \in {} |-> 0]

\* the events of the call with ev yielded after them
Yield(evs, ev) ==
    LET all == Append(evs, ev)
    IN  IF Len(all) > EventWindow THEN Tail(all) ELSE all

\* a counter of the attempts of a call: it stops at MaxAttempts
Count(n) == IF n < MaxAttempts THEN n + 1 ELSE n

\* set_up has not been called
NoArgs == [t_start |-> 0, dt_start |-> 0, state |-> EmptyState]

\* the interpreter as its constructor leaves it
Constructed ==
    /\ state = EmptyState
    /\ plan = {}
    /\ executed = {}
    /\ pc = "new"
    /\ t_end = 0
    /\ last_step = FALSE
    /\ events = <<>>
    /\ error = "none"
    /\ trace = <<>>
    /\ pre = EmptyState
    /\ attempts = 0
    /\ failed = 0
    /\ phase = "none"
    /\ taken = {}
    /\ calls = 0
    /\ args = NoArgs

Init ==
    /\ code \in Codes
    /\ Constructed
    /\ KindsIdle
    /\ ExpressionIdle

\* set_up's loop over the components, in the order the dict yields them:
\* the state after it, and whether it raised
\* (variant: no name is refused)
RECURSIVE SetUpLoop_Unchecked(_, _, _)
SetUpLoop_Unchecked(st, keys, comps) ==
    IF keys = <<>> THEN [state |-> st, raised |-> FALSE]
    ELSE SetUpLoop_Unchecked(
             Store(st, "<state>" \o Head(keys), comps[Head(keys)]),
             Tail(keys), comps)

RECURSIVE SetUpLoop(_, _, _)
SetUpLoop(st, keys, comps) ==
    IF keys = <<>> THEN [state |-> st, raised |-> FALSE]
    ELSE IF StartsWith(Head(keys), "<") THEN [state |-> st, raised |-> TRUE]
    ELSE SetUpLoop(Store(st, "<state>" \o Head(keys), comps[Head(keys)]),
                   Tail(keys), comps)

\* the state dicts given to set_up: component name -> initial value
Components ==
    {[n \in {"slow", "fast"} |-> IF n = "slow" THEN 0 ELSE 1],
     [n \in {"slow", "<p>n"} |-> IF n = "slow" THEN 0 ELSE 1],
     [n \in {"slow", "<x"} |-> IF n = "slow" THEN 0 ELSE 1]}

\* the orders in which iterating a dict may yield its keys
RECURSIVE Orders(_)
Orders(S) ==
    IF S = {} THEN {<<>>}
    ELSE UNION {{<<k>> \o o : o \in Orders(S \ {k})} : k \in S}

\* the state dicts with the orders their keys may be yielded in
ComponentOrders ==
    UNION {{[state |-> comps, keys |-> keys] : keys \in Orders(DOMAIN comps)} :
           comps \in Components}

SetUp(t_start, dt_start, comps, keys) ==
    /\ pc = "new"
    /\ LET r == SetUpLoop(
                  Store(Store(state, "<t>", t_start), "<dt>", dt_start),
                  keys, comps)
       IN  /\ state' = r.state
           /\ pc' = IF r.raised THEN "raised" ELSE "set_up"
           /\ error' = IF r.raised THEN "ValueError" ELSE error
    /\ args' = [t_start |-> t_start, dt_start |-> dt_start, state |-> comps]
    /\ UNCHANGED <<kvars, xvars, calls, code, plan, executed, t_end, last_step, events, trace,
                   pre, attempts, failed, phase, taken>>

\* (variant: the goals are planned without what they depend on)
InitializationPlan_GoalsOnly(c) == c.initialization_dep_on

\* (variant: initialize plans the step goals)
InitializationPlan_StepGoals(c) == UpdatePlan(c, {}, {}, c.step_dep_on)

\* reset, then update_plan with the goals of the plan to run
InitializationPlan(c) == UpdatePlan(c, {}, {}, c.initialization_dep_on)
StepPlan(c) == UpdatePlan(c, {}, {}, c.step_dep_on)

\* (variant: the last step is flagged but <dt> is left as it is)
Clamp_Unclamped(st, te) == st

\* (variant: <dt> is set to t_end, not to what is left up to t_end)
Clamp_ToEnd(st, te) ==
    IF st["<t>"] + st["<dt>"] >= te THEN Store(st, "<dt>", te) ELSE st

\* (variant: the step is adjusted only once <t> has reached t_end)
Clamp_AtEnd(st, te) ==
    IF st["<t>"] >= te THEN Store(st, "<dt>", te - st["<t>"]) ELSE st

\* adjust the time step down at the end of the integration
Clamp(st, te) ==
    IF st["<t>"] + st["<dt>"] >= te
    THEN Store(st, "<dt>", te - st["<t>"]) ELSE st

\* initialize: reset the controller and plan the initialization goals
Initialize ==
    /\ pc = "set_up"
    /\ plan' = InitializationPlan(code)
    /\ executed' = {}
    /\ trace' = <<>>
    /\ taken' = {}
    /\ phase' = "initialization"
    /\ pc' = "initialize"
    /\ UNCHANGED <<kvars, xvars, calls, args, code, state, t_end, last_step, events, error, pre,
                   attempts, failed>>

\* the generator of the initialization plan is exhausted
InitializeReturn ==
    /\ pc = "initialize"
    /\ plan = {}
    /\ pc' = "idle"
    /\ UNCHANGED <<kvars, xvars, calls, args, code, state, plan, executed, t_end, last_step, events,
                   error, trace, pre, attempts, failed, phase, taken>>

\* the call run(t_end): the body starts at the top of the while loop
RunCall(te) ==
    /\ t_end' = te
    /\ last_step' = FALSE
    /\ events' = <<>>
    /\ attempts' = 0
    /\ failed' = 0
    /\ calls' = calls + 1
    /\ pc' = "run"
    /\ UNCHANGED <<kvars, xvars, args, code, state, plan, executed, error, trace,
                   pre, phase, taken>>

\* the first call of run, after initialize
Run(te) == pc = "idle" /\ RunCall(te)

\* a further call of run, after the previous one has returned
RunAgain(te) == pc = "done" /\ calls < MaxCalls /\ RunCall(te)

\* top of the while loop: clamp <dt>, reset the controller, plan the step
BeginStep ==
    /\ pc = "run"
    /\ LET t == state["<t>"]
           dt == state["<dt>"]
       IN  IF t + dt >= t_end /\ ~(t <= t_end)  \* the assertion fails
           THEN /\ pc' = "raised"
                /\ error' = "AssertionError"
                /\ UNCHANGED <<state, last_step, plan, executed, trace, pre,
                               attempts, phase, taken>>
           ELSE /\ state' = Clamp(state, t_end)
                /\ last_step' = (last_step \/ t + dt >= t_end)
                /\ plan' = StepPlan(code)
                /\ executed' = {}
                /\ trace' = <<>>
                /\ taken' = {}
                /\ phase' = "step"
                /\ pre' = state
                /\ attempts' = Count(attempts)
                /\ pc' = "step"
                /\ error' = error
    /\ UNCHANGED <<kvars, xvars, calls, args, code, t_end, events, failed>>

-----------------------------------------------------------------------------
(* The instruction handlers and what run and initialize do with their      *)
(* results.                                                                *)

\* exec_AssignExpression: the state mapping after the assignment
exec_AssignExpression(insn, st) ==
    Store(st, insn.assignee, Eval(insn.expression, st))

\* (variant: the event is stamped with the current <t>)
exec_ReturnState_AtCurrentTime(insn, st) ==
    StateComputed(st["<t>"], insn.time_id, insn.component_id,
                  Eval(insn.expression, st))

\* exec_ReturnState: the event handed to the controller
exec_ReturnState(insn, st) ==
    StateComputed(Eval(insn.time, st), insn.time_id, insn.component_id,
                  Eval(insn.expression, st))

\* (variant: the branches are swapped)
exec_If_Swapped(insn, st) ==
    IF Eval(insn.condition, st)
    THEN insn.else_depends_on ELSE insn.then_depends_on

\* exec_If: the dependency set scheduling continues with
exec_If(insn, st) ==
    IF Eval(insn.condition, st)
    THEN insn.then_depends_on ELSE insn.else_depends_on

\* (variant: a bare except clause)
Handled_Any(exc) == TRUE

\* the except clause of run: the one exception it handles
Handled(exc) == exc = "FailStepException"

\* the expressions a handler evaluates
Evaluated(insn) ==
    CASE insn.kind = "AssignExpression" -> {insn.expression}
      [] insn.kind = "If" -> {insn.condition}
      [] insn.kind = "ReturnState" -> {insn.time, insn.expression}
      [] OTHER -> {}

CanEvaluate(insn, st) == \A e \in Evaluated(insn) : Evaluable(e, st)

\* instruction i is the one the controller executes next
Selected(i, kind) ==
    /\ pc \in {"initialize", "step"}
    /\ Ready(code, plan, executed, i)
    /\ code.insns[i].kind = kind

\* the controller marks i executed
Mark(i) ==
    /\ executed' = executed \cup {i}
    /\ trace' = Append(trace, i)

\* a handler raised exc: initialize lets it through; run discards the
\* per-step state, then turns fail-step into an event and goes on
Throw(exc) ==
    IF pc = "step"
    THEN /\ state' = Discard(state)
         /\ IF Handled(exc)
            THEN /\ events' = Yield(events, StepFailed(state'["<t>"]))
                 /\ failed' = Count(failed)
                 /\ pc' = "run"
                 /\ error' = error
            ELSE /\ pc' = "raised"
                 /\ error' = exc
                 /\ UNCHANGED <<events, failed>>
    ELSE /\ pc' = "raised"
         /\ error' = exc
         /\ UNCHANGED <<state, events, failed>>

ExecAssignExpression(i) ==
    /\ Selected(i, "AssignExpression")
    /\ CanEvaluate(code.insns[i], state)
    /\ state' = exec_AssignExpression(code.insns[i], state)
    /\ plan' = plan \ {i}
    /\ Mark(i)
    /\ UNCHANGED <<kvars, xvars, calls, args, code, pc, t_end, last_step, events, error, pre, attempts,
                   failed, phase, taken>>

ExecReturnState(i) ==
    /\ Selected(i, "ReturnState")
    /\ CanEvaluate(code.insns[i], state)
    /\ events' = IF pc = "step"
                 THEN Yield(events, exec_ReturnState(code.insns[i], state))
                 ELSE events  \* initialize drops the events
    /\ plan' = plan \ {i}
    /\ Mark(i)
    /\ UNCHANGED <<kvars, xvars, calls, args, code, state, pc, t_end, last_step, error, pre, attempts,
                   failed, phase, taken>>

ExecIf(i) ==
    /\ Selected(i, "If")
    /\ CanEvaluate(code.insns[i], state)
    /\ plan' = UpdatePlan(code, plan \ {i}, executed \cup {i},
                          exec_If(code.insns[i], state))
    /\ Mark(i)
    /\ taken' = taken \cup {<<i, Eval(code.insns[i].condition, state)>>}
    /\ UNCHANGED <<kvars, xvars, calls, args, code, state, pc, t_end, last_step, events, error, pre,
                   attempts, failed, phase>>

ExecFailStep(i) ==
    /\ Selected(i, "FailStep")
    /\ Throw("FailStepException")
    /\ plan' = plan \ {i}
    /\ Mark(i)
    /\ UNCHANGED <<kvars, xvars, calls, args, code, t_end, last_step, pre, attempts, phase, taken>>

ExecRaise(i) ==
    /\ Selected(i, "Raise")
    /\ Throw("UserError")
    /\ plan' = plan \ {i}
    /\ Mark(i)
    /\ UNCHANGED <<kvars, xvars, calls, args, code, t_end, last_step, pre, attempts, phase, taken>>

\* a handler reads a name the state mapping does not hold
ExecUnknownVariable(i) ==
    /\ pc \in {"initialize", "step"}
    /\ Ready(code, plan, executed, i)
    /\ ~CanEvaluate(code.insns[i], state)
    /\ Throw("UnknownVariableError")
    /\ plan' = plan \ {i}
    /\ Mark(i)
    /\ UNCHANGED <<kvars, xvars, calls, args, code, t_end, last_step, pre, attempts, phase, taken>>

\* the step plan is exhausted: discard the per-step state, report the step
StepReturn ==
    /\ pc = "step"
    /\ plan = {}
    /\ state' = Discard(state)
    /\ events' = Yield(events, StepCompleted(state'["<t>"]))
    /\ pc' = IF last_step THEN "done" ELSE "run"
    /\ UNCHANGED <<kvars, xvars, calls, args, code, plan, executed, t_end, last_step, error, trace, pre,
                   attempts, failed, phase, taken>>

Next ==
    \/ \E t_start \in 0..1, dt_start \in 1..MaxDt, d \in ComponentOrders :
          SetUp(t_start, dt_start, d.state, d.keys)
    \/ Initialize
    \/ InitializeReturn
    \/ \E te \in 0..MaxT : Run(te)
    \/ BeginStep
    \/ \E i \in DOMAIN code.insns : ExecAssignExpression(i)
    \/ \E i \in DOMAIN code.insns : ExecReturnState(i)
    \/ \E i \in DOMAIN code.insns : ExecIf(i)
    \/ \E i \in DOMAIN code.insns : ExecFailStep(i)
    \/ \E i \in DOMAIN code.insns : ExecRaise(i)
    \/ \E i \in DOMAIN code.insns : ExecUnknownVariable(i)
    \/ StepReturn

Spec == Init /\ [][Next]_vars

\* run is driven by a consumer that keeps asking for the next event, and
\* every step the interpreter can take is eventually taken
FairSpec == Spec /\ WF_vars(Next)

\* Sequences of run calls on one interpreter. Spec follows an interpreter
\* up to the end of its first call; RestartSpec goes on with further calls,
\* for the fixed-step plan without initialization, the conditional plans
\* that branch before x is assigned, and the hand-written plans whose
\* state components do not grow from step to step.
RestartCodes ==
    {c \in GenericCodes :
        /\ c.initialization_dep_on = {}
        /\ \A i \in DOMAIN c.insns : c.insns[i].depends_on = {}}
        \cup {c \in ConditionalCodes :
                /\ c.insns[2].depends_on = {}
                /\ c.insns[2].then_depends_on = {3}
                /\ c.insns[2].else_depends_on = {4}}
        \cup {AdaptiveCode, InitFailCode, InitRaiseCode, AlwaysFailCode}

RestartInit == Init /\ code \in RestartCodes

RestartNext == Next \/ \E te \in 0..MaxT : RunAgain(te)

RestartSpec == RestartInit /\ [][RestartNext]_vars

RestartFairSpec == RestartSpec /\ WF_vars(RestartNext)

-----------------------------------------------------------------------------
(* unify as a function of its two arguments: UnifySpec calls it once on    *)
(* every pair of arguments.                                                *)

ComponentIds == {"slow", "fast"}

Kinds ==
    {Boolean, Scalar(TRUE), Scalar(FALSE), Array(TRUE), Array(FALSE)}
        \cup {ODEComponent(c) : c \in ComponentIds}

\* what the inference rules pass to unify: a kind, or None as the seed of a
\* fold over operands
UnifyArguments == Kinds \cup {None}

\* no interpreter is running
InterpreterIdle == code = AlwaysFailCode /\ Constructed

UnifyInit ==
    /\ kind_a \in UnifyArguments
    /\ kind_b \in UnifyArguments
    /\ unified = NotCalled
    /\ SolverIdle
    /\ MapperIdle
    /\ InterpreterIdle
    /\ ExpressionIdle

Unify ==
    /\ unified = NotCalled
    /\ unified' = unify(kind_a, kind_b)
    /\ UNCHANGED <<ivars, xvars, mvars, kind_a, kind_b, svars>>

UnifyNext == Unify

UnifySpec == UnifyInit /\ [][UnifyNext]_vars

-----------------------------------------------------------------------------
(* The expression layer: one call of collapse_constants, of the evaluation *)
(* or of match on arguments drawn from bounded sets.                       *)

MaxValue == 1       \* largest literal and largest value bound to a variable

Names == {"x", "y"}

Atoms == {Literal(c) : c \in 0..MaxValue} \cup {Variable(n) : n \in Names}

\* sums, products, quotients and powers of atoms; a sum or product has
\* one or two children here
Level1 ==
    {SumOf(<<a>>) : a \in Atoms} \cup {ProductOf(<<a>>) : a \in Atoms}
    \cup {SumOf(<<a, b>>) : a, b \in Atoms}
    \cup {ProductOf(<<a, b>>) : a, b \in Atoms}
    \cup {Quotient(a, b) : a, b \in Atoms}
    \cup {PowerOf(a, b) : a, b \in Atoms}

\* the expressions collapse_constants is called on: atoms, the expressions
\* of Level1, one more level above them, sums and products of three, and
\* quotients of a sum of two by a sum of one
Expressions ==
    Atoms \cup Level1
    \cup {SumOf(<<a, e>>) : a \in Atoms, e \in Level1}
    \cup {ProductOf(<<e, a>>) : a \in Atoms, e \in Level1}
    \cup {Quotient(e, a) : a \in Atoms, e \in Level1}
    \cup {Quotient(a, e) : a \in Atoms, e \in Level1}
    \cup {PowerOf(e, a) : a \in Atoms, e \in Level1}
    \cup {SumOf(<<a, b, c>>) : a, b, c \in Atoms}
    \cup {ProductOf(<<a, b, c>>) : a, b, c \in Atoms}
    \cup {Quotient(SumOf(<<a, b>>), SumOf(<<c>>)) : a, b, c \in Atoms}

\* the bindings of the variables
Bindings == [Names -> {Number(v, 1) : v \in 0..MaxValue}]

\* the arguments of the evaluations: a name that is in the context, in the
\* function table, in both or in neither
Contexts ==
    UNION {[S -> {Number(v, 1) : v \in 0..MaxValue}] : S \in SUBSET {"x", "f"}}
FunctionTables ==
    UNION {[S -> {FunctionValue("total")}] : S \in SUBSET {"f", "x"}}
Evaluated_Expressions ==
    {Variable(n) : n \in {"x", "f", "z"}}
    \cup {CallOf(f, <<Variable("x")>>) : f \in {"f", "z"}}
    \cup {CallWithKwargs("f", <<Literal(1)>>,
                         <<Keyword("p", Variable(n))>>) : n \in {"x", "z"}}
    \cup {SumOf(<<Variable(n), Literal(1)>>) : n \in {"x", "f", "z"}}

\* the arguments of match: calls of at most two positional parameters, or
\* of at most one positional parameter and keyword parameters p and q
\* written in either order
Calls(callees, atoms) ==
    LET positional == {<<>>} \cup {<<a>> : a \in atoms}
        keywords ==
            {<<>>}
            \cup {<<Keyword(k, a)>> : k \in {"p", "q"}, a \in atoms}
            \cup {<<Keyword("p", a), Keyword("q", b)>> : a, b \in atoms}
            \cup {<<Keyword("q", a), Keyword("p", b)>> : a, b \in atoms}
    IN  {CallOf(f, ps) : f \in callees,
                         ps \in positional \cup {<<a, b>> : a, b \in atoms}}
        \cup {CallWithKwargs(f, ps, kw) :
                  f \in callees, ps \in positional, kw \in keywords}

Templates == Calls({"f"}, {Variable("a"), Variable("b")})
Matched_Expressions == Calls({"f", "g"}, {Literal(0), Variable("b")})
FreeVariableNames == {{"a"}, {"a", "b"}}

\* the results of a call that has not been made
NoResults ==
    /\ ret_new_expression = NoExpression
    /\ ret_assignments = EmptyDict
    /\ ret_value = NoValue
    /\ ret_mapping = EmptyDict
    /\ raised_exception = ""
    /\ returned = FALSE

\* the arguments a call does not take
NoFunctions == [n \in {} |-> NoValue]

ExpressionInit ==
    /\ \/ /\ called = "collapse_constants"
          /\ arg_expression \in Expressions
          /\ arg_free_variables \in SUBSET Names
          /\ arg_context \in Bindings
          /\ arg_functions = NoFunctions
          /\ arg_template = NoExpression
       \/ /\ called = "evaluate"
          /\ arg_expression \in Evaluated_Expressions
          /\ arg_context \in Contexts
          /\ arg_functions \in FunctionTables
          /\ arg_free_variables = {}
          /\ arg_template = NoExpression
       \/ /\ called = "match"
          /\ arg_template \in Templates
          /\ arg_expression \in Matched_Expressions
          /\ arg_free_variables \in FreeVariableNames
          /\ arg_context = NoFunctions
          /\ arg_functions = NoFunctions
    /\ NoResults
    /\ KindsIdle
    /\ InterpreterIdle

\* collapse_constants(expression, free_variables, assign_func, new_var_func)
CollapseConstants ==
    /\ called = "collapse_constants" /\ ~returned
    /\ LET r == collapse_constants(arg_expression, arg_free_variables)
       IN  /\ ret_new_expression' = r.expr
           /\ ret_assignments' = r.assignments
           /\ raised_exception' = r.raised
    /\ returned' = TRUE
    /\ UNCHANGED <<ivars, kvars, called, arg_expression, arg_template, arg_free_variables,
                   arg_context, arg_functions, ret_value, ret_mapping>>

\* EvaluationMapper(context, functions)(expression)
Evaluate ==
    /\ called = "evaluate" /\ ~returned
    /\ LET v == EvaluationMapper(arg_expression, arg_context, arg_functions)
       IN  /\ ret_value' = IF v.tag = "raised" THEN NoValue ELSE v
           /\ raised_exception' = IF v.tag = "raised" THEN v.name ELSE ""
    /\ returned' = TRUE
    /\ UNCHANGED <<ivars, kvars, called, arg_expression, arg_template, arg_free_variables,
                   arg_context, arg_functions, ret_new_expression, ret_assignments, ret_mapping>>

\* match(template, expression, free_variable_names)
Match ==
    /\ called = "match" /\ ~returned
    /\ LET r == match(arg_template, arg_expression, arg_free_variables)
       IN  /\ ret_mapping' = r.mapping
           /\ raised_exception' = r.raised
    /\ returned' = TRUE
    /\ UNCHANGED <<ivars, kvars, called, arg_expression, arg_template, arg_free_variables,
                   arg_context, arg_functions, ret_new_expression, ret_assignments, ret_value>>

ExpressionNext == CollapseConstants \/ Evaluate \/ Match

ExpressionSpec == ExpressionInit /\ [][ExpressionNext]_vars

-----------------------------------------------------------------------------
(* KindInferenceMapper called on one expression, with the tables a solver  *)
(* run can have built by then: a name is absent, or recorded with a kind,  *)
(* or recorded with None (what the inference of a power has returned).     *)

InferNames == {"x", "z"}

\* the local tables
LocalTables ==
    UNION {[S -> Kinds \cup {None}] : S \in SUBSET InferNames}

\* the expressions: every form over the names and <t>
InferExpressions ==
    LET operands == InferNames \cup {"<t>"}
    IN  {Sum(n, m) : n, m \in operands}
        \cup {Product(n, m) : n, m \in operands}
        \cup {Ratio(n, m) : n, m \in operands}
        \cup {Power(n, m) : n, m \in operands}
        \cup {SumC(n, 1) : n \in operands}
        \cup {Var(n) : n \in operands}
        \cup {Subscript(n) : n \in operands}
        \cup {Comparison(n, "<", 1) : n \in operands}
        \cup {Const(1), ComplexConst, Call("<func>rhs")}

InferInit ==
    /\ kim_expr \in InferExpressions
    /\ kim_global_table = SymbolKindTable.global_table
    /\ kim_local_table \in LocalTables
    /\ kim_kind = NotCalled
    /\ kind_a = None
    /\ kind_b = None
    /\ unified = NotCalled
    /\ SolverIdle
    /\ InterpreterIdle
    /\ ExpressionIdle

\* kim(insn.expression)
Infer ==
    /\ kim_kind = NotCalled
    /\ kim_kind' = KindInferenceMapper(kim_expr, kim_global_table,
                                       kim_local_table)
    /\ UNCHANGED <<ivars, xvars, kind_a, kind_b, unified, svars, kim_expr,
                   kim_global_table, kim_local_table>>

InferNext == Infer

InferSpec == InferInit /\ [][InferNext]_vars

-----------------------------------------------------------------------------
(* SymbolKindFinder.__call__: the whole-program kind solver, one action    *)
(* for each way an iteration of its loop can go.                           *)

MaxProgram == 3     \* instructions of the functions given to the solver

AssignSolved == Instruction(0, "AssignSolved", {})

\* the (function, instruction) pairs the programs are made of
Pool ==
    {[func |-> "f", insn |-> AssignExpression(0, {}, "x", Const(1))],
     [func |-> "f", insn |-> AssignExpression(0, {}, "x", ComplexConst)],
     [func |-> "f", insn |-> AssignExpression(0, {}, "z", ComplexConst)],
     [func |-> "f", insn |-> AssignExpression(0, {}, "y", Sum("x", "z"))],
     [func |-> "f", insn |-> AssignExpression(0, {}, "z", Product("y", "x"))],
     [func |-> "f",
      insn |-> AssignExpression(0, {}, "<state>slow", Call("<func>rhs"))],
     [func |-> "g",
      insn |-> AssignExpression(0, {}, "y", Sum("<state>slow", "x"))],
     [func |-> "g", insn |-> AssignExpression(0, {}, "<state>slow", Const(1))],
     [func |-> "f",
      insn |-> AssignExpression(0, {}, "flag", Comparison("x", "<", 1))],
     [func |-> "f", insn |-> AssignExpression(0, {}, "w", Sum("flag", "x"))],
     [func |-> "f", insn |-> AssignExpression(0, {}, "p", Power("x", "x"))],
     [func |-> "f", insn |-> FailStep(0, {})],
     [func |-> "f", insn |-> AssignSolved]}

Programs == UNION {[1..n -> Pool] : n \in 0..MaxProgram}

\* the solver at the top of its loop, the queue filled with the
\* instructions of the functions
SolverInit ==
    /\ program \in Programs
    /\ insn_queue = program
    /\ insn_queue_push_buffer = <<>>
    /\ made_progress = FALSE
    /\ result = SymbolKindTable
    /\ solver = "running"
    /\ pass_size = Len(program)
    /\ recorded = 0
    /\ kind_a = None
    /\ kind_b = None
    /\ unified = NotCalled
    /\ MapperIdle
    /\ InterpreterIdle
    /\ ExpressionIdle

\* the queue is empty at the top of an iteration: the overflow buffer
\* becomes the queue
Swaps == insn_queue = <<>>

\* the queue the iteration pops from, and the instruction it pops
Queue == IF Swaps THEN insn_queue_push_buffer ELSE insn_queue
Popped == Queue[Len(Queue)]

\* (variant: made_progress is not reset when the buffer becomes the queue)
Progress_Kept == made_progress

\* made_progress after the top of the iteration
Progress == IF Swaps THEN FALSE ELSE made_progress

\* an iteration that pops an instruction of the given kind
Iterate(kind) ==
    /\ solver = "running"
    /\ Queue # <<>>
    /\ Swaps => made_progress
    /\ Popped.insn.kind = kind
    /\ insn_queue' = SubSeq(Queue, 1, Len(Queue) - 1)
    /\ pass_size' = IF Swaps THEN Len(insn_queue_push_buffer) ELSE pass_size
    /\ UNCHANGED <<ivars, xvars, mvars, kind_a, kind_b, unified, program>>

\* the overflow buffer and the history after the top of the iteration
Buffer == IF Swaps THEN <<>> ELSE insn_queue_push_buffer
Recorded == IF Swaps THEN 0 ELSE recorded

\* KindInferenceMapper on the expression of the popped instruction
Inferred ==
    KindInferenceMapper(Popped.insn.expression, result.global_table,
                        LocalTable(result, Popped.func))

\* the queue is empty and the last pass made no progress
SolverFail ==
    /\ solver = "running"
    /\ insn_queue = <<>>
    /\ insn_queue_push_buffer # <<>>
    /\ ~made_progress
    /\ solver' = "failed to infer types"
    /\ UNCHANGED <<ivars, xvars, mvars, kind_a, kind_b, unified, program, insn_queue,
                   insn_queue_push_buffer, made_progress, result, pass_size,
                   recorded>>

\* AssignSolved is not implemented
SolverTodo ==
    /\ Iterate("AssignSolved")
    /\ made_progress' = TRUE
    /\ solver' = "TODO"
    /\ insn_queue_push_buffer' = Buffer
    /\ recorded' = Recorded
    /\ UNCHANGED result

\* the kind cannot be inferred yet: the instruction goes to the buffer
SolverDefer ==
    /\ Iterate("AssignExpression")
    /\ Inferred = UnableToInferKind
    /\ insn_queue_push_buffer' = Append(Buffer, Popped)
    /\ made_progress' = Progress
    /\ recorded' = Recorded
    /\ UNCHANGED <<result, solver>>

\* the inference raised an error
SolverError ==
    /\ Iterate("AssignExpression")
    /\ IsError(Inferred)
    /\ solver' = Inferred.tag
    /\ insn_queue_push_buffer' = Buffer
    /\ made_progress' = Progress
    /\ recorded' = Recorded
    /\ UNCHANGED result

\* the inference returned: result.set(func_name, insn.assignee, kind)
SolverSet ==
    /\ Iterate("AssignExpression")
    /\ ~IsException(Inferred)
    /\ made_progress' = TRUE
    /\ insn_queue_push_buffer' = Buffer
    /\ LET r == set(result, Popped.func, Popped.insn.assignee, Inferred)
       IN  /\ result' = r.table
           /\ solver' = IF r.raised THEN "inconsistent kind" ELSE solver
           /\ recorded' = IF r.raised THEN Recorded ELSE Recorded + 1

\* any other instruction is passed over
SolverPass ==
    /\ Iterate("FailStep")
    /\ insn_queue_push_buffer' = Buffer
    /\ made_progress' = Progress
    /\ recorded' = Recorded
    /\ UNCHANGED <<result, solver>>

\* both queues are empty: return result
SolverReturn ==
    /\ solver = "running"
    /\ insn_queue = <<>>
    /\ insn_queue_push_buffer = <<>>
    /\ solver' = "returned"
    /\ UNCHANGED <<ivars, xvars, mvars, kind_a, kind_b, unified, program, insn_queue,
                   insn_queue_push_buffer, made_progress, result, pass_size,
                   recorded>>

SolverNext ==
    \/ SolverFail
    \/ SolverTodo
    \/ SolverDefer
    \/ SolverError
    \/ SolverSet
    \/ SolverPass
    \/ SolverReturn

SolverSpec == SolverInit /\ [][SolverNext]_vars

\* what a call of the solver leaves: how it ended and the table
Solved(ended, table) == [solver |-> ended, result |-> table]

\* SymbolKindFinder.__call__ from the top of its loop to its end, for the
\* queue, the overflow buffer, the flag and the table given
RECURSIVE SymbolKindFinder(_, _, _, _)
SymbolKindFinder(queue, buffer, progress, table) ==
    IF queue = <<>> /\ buffer = <<>> THEN Solved("returned", table)
    ELSE IF queue = <<>> /\ ~progress
    THEN Solved("failed to infer types", table)
    ELSE
      LET swaps == queue = <<>>
          from == IF swaps THEN buffer ELSE queue
          kept == IF swaps THEN <<>> ELSE buffer
          flag == IF swaps THEN FALSE ELSE progress
          popped == from[Len(from)]
          rest == SubSeq(from, 1, Len(from) - 1)
          kind == KindInferenceMapper(popped.insn.expression,
                                      table.global_table,
                                      LocalTable(table, popped.func))
          r == set(table, popped.func, popped.insn.assignee, kind)
      IN  CASE popped.insn.kind = "AssignSolved" -> Solved("TODO", table)
            [] popped.insn.kind = "AssignExpression"
                 /\ kind = UnableToInferKind ->
                  SymbolKindFinder(rest, Append(kept, popped), flag, table)
            [] popped.insn.kind = "AssignExpression" /\ IsError(kind) ->
                  Solved(kind.tag, table)
            [] popped.insn.kind = "AssignExpression"
                 /\ ~IsException(kind) ->
                  IF r.raised THEN Solved("inconsistent kind", r.table)
                  ELSE SymbolKindFinder(rest, kept, TRUE, r.table)
            [] OTHER -> SymbolKindFinder(rest, kept, flag, table)

\* the loop runs on until it returns or raises
SolverFairSpec == SolverSpec /\ WF_vars(SolverNext)

\* The analysis passes: one call of the solver, or one call of a function
\* of the expression layer.
AnalysisInit == SolverInit \/ ExpressionInit

AnalysisNext == SolverNext \/ ExpressionNext

AnalysisSpec == AnalysisInit /\ [][AnalysisNext]_vars

TypeOK ==
    /\ pc \in {"new", "set_up", "initialize", "idle", "run", "step", "done",
               "raised"}
    /\ plan \cap executed = {}
    /\ Acyclic(code)
    /\ attempts \in 0..MaxAttempts

-----------------------------------------------------------------------------
(* Helpers of the properties.                                              *)

Range(seq) == {seq[k] : k \in DOMAIN seq}

\* position of id in the execution order (0 when it was not executed)
Pos(id) ==
    IF id \in Range(trace)
    THEN CHOOSE k \in DOMAIN trace : trace[k] = id ELSE 0

\* the goal set the controller was last given
Goals ==
    CASE phase = "initialization" -> code.initialization_dep_on
      [] phase = "step" -> code.step_dep_on
      [] OTHER -> {}

\* closure of ids under every dependency set of the instructions: depends_on
\* and the two successor-dependency sets of the conditionals
RECURSIVE DependencyClosure(_, _)
DependencyClosure(c, ids) ==
    LET more == ids \cup UNION {AllDeps(c.insns[i]) : i \in ids}
    IN  IF more = ids THEN ids ELSE DependencyClosure(c, more)

StepEvents == {k \in DOMAIN events :
                  events[k].type \in {"StepCompleted", "StepFailed"}}

LastEvent == events[Len(events)]

-----------------------------------------------------------------------------
(* C1: in one run of the controller, only instructions of the dependency   *)
(* closure of the goals are executed, none twice, and none before all the  *)
(* instructions it depends on; a run that ends normally has executed every *)
(* instruction the goals depend on (A, B, then C for goal {C}).            *)
C1_DependencyOrder ==
    /\ Range(trace) \subseteq DependencyClosure(code, Goals)
    /\ \A k, l \in DOMAIN trace : trace[k] = trace[l] => k = l
    /\ \A k \in DOMAIN trace :
          code.insns[trace[k]].depends_on
              \subseteq {trace[j] : j \in 1..(k - 1)}
    /\ pc = "idle" => Closure(code, Goals) \subseteq Range(trace)

\* witness: goal {3} with 3 depending on 1 and 2, executed as 2, 1, 3
C1_Witness ==
    /\ pc = "idle"
    /\ code.initialization_dep_on = {3}
    /\ code.insns[3].depends_on = {1, 2}
    /\ code.insns[2].depends_on = {}
    /\ trace = <<2, 1, 3>>

-----------------------------------------------------------------------------
\* a step plan in which every attempt completes and advances <t> by <dt>:
\* assignments and observations only, reading what set_up has stored, one
\* of them <t> := <t> + <dt>, none assigning <dt>
CompletesAndAdvances(c) ==
    LET ids == DependencyClosure(c, c.step_dep_on)
        seeded == {"<t>", "<dt>", "<state>slow", "<state>fast"}
    IN  /\ \A i \in ids :
              /\ c.insns[i].kind \in {"AssignExpression", "ReturnState"}
              /\ \A e \in Evaluated(c.insns[i]) : Reads(e) \subseteq seeded
              /\ c.insns[i].assignee # "<dt>"
              /\ c.insns[i].assignee = "<t>" =>
                    c.insns[i].expression = Sum("<t>", "<dt>")
        /\ Cardinality({i \in ids : c.insns[i].assignee = "<t>"}) = 1

\* run(t_end) has been called with <t> <= t_end on such a plan
C2_Called ==
    /\ pc = "run"
    /\ attempts = 0
    /\ CompletesAndAdvances(code)
    /\ state["<dt>"] > 0
    /\ state["<t>"] <= t_end

C2_Ended ==
    /\ pc = "done"
    /\ events # <<>>
    /\ LastEvent = StepCompleted(t_end)

(* C2: on a step plan in which every attempt completes and advances <t> by *)
(* <dt>, run(t_end) called with <dt> > 0 and <t> <= t_end ends, its last   *)
(* event is StepCompleted(t = t_end), and no StepCompleted event has       *)
(* t > t_end.                                                              *)
C2_RunReachesTEnd ==
    /\ [](C2_Called => <>C2_Ended)
    /\ [](CompletesAndAdvances(code) =>
            /\ \A k \in DOMAIN events :
                  events[k].type = "StepCompleted" => events[k].t <= t_end
            /\ pc = "done" => C2_Ended)

\* witness: set_up(t_start=0, dt_start=2), run(3) has ended with steps at
\* t = 2 and t = 3, the second one clamped
C2_Witness ==
    /\ C2_Ended
    /\ CompletesAndAdvances(code)
    /\ t_end = 3
    /\ attempts = 2
    /\ pre["<dt>"] = 2
    /\ state["<dt>"] = 1
    /\ \E k \in DOMAIN events : events[k] = StepCompleted(2)

-----------------------------------------------------------------------------
(* C3: once a step attempt has signalled fail-step, run(t_end) does not    *)
(* end its event sequence before a StepCompleted event with t = t_end,     *)
(* also when the failed attempt was the one flagged as the last.           *)
C3_FailedStepIsRetriedToTEnd ==
    (pc = "done" /\ failed > 0) => LastEvent = StepCompleted(t_end)

(* C4: a StepFailed event carries the <t> the failed attempt started with, *)
(* and the retry starts from that <t>.                                     *)
C4_StepFailedKeepsTime ==
    (pc = "run" /\ events # <<>> /\ LastEvent.type = "StepFailed") =>
        /\ LastEvent.t = pre["<t>"]
        /\ state["<t>"] = pre["<t>"]

-----------------------------------------------------------------------------
\* the successor-dependency set a recorded condition value stands for
ChosenSet(p) ==
    IF p[2] THEN code.insns[p[1]].then_depends_on
    ELSE code.insns[p[1]].else_depends_on

\* the goals together with the sets the evaluated conditions selected
SelectedGoals == Goals \cup UNION {ChosenSet(p) : p \in taken}

\* the controller has run its plan to the end
PlanFinished ==
    \/ phase = "initialization" /\ pc \in {"idle", "run"}
    \/ /\ phase = "step"
       /\ pc \in {"run", "done"}
       /\ LastEvent.type = "StepCompleted"

\* the plan of the example: x := c; if x == 1 then x := 2 else x := 99
ConditionExample(c) ==
    TimeIntegratorCode(
        {AssignExpression(1, {}, "x", Const(c)),
         If(2, {1}, Comparison("x", "==", 1), {3}, {4}),
         AssignExpression(3, {}, "x", Const(2)),
         AssignExpression(4, {}, "x", Const(99)),
         AdvanceT(0, {})},
        {2}, {0})

(* C5: a conditional evaluates its condition against the current state and *)
(* scheduling continues with exactly the set that value selects: what is   *)
(* executed lies in the dependency closure of the goals and the selected   *)
(* sets, a finished run has executed all of it, and nothing reachable only *)
(* through an unselected set is executed (x=1 ends with x=2, x=0 with 99). *)
C5_ConditionalSelectsOneBranch ==
    /\ \A p, q \in taken : p[1] = q[1] => p = q
    /\ Range(trace) \subseteq Closure(code, SelectedGoals)
    /\ PlanFinished => Closure(code, SelectedGoals) \subseteq Range(trace)
    /\ (pc = "idle" /\ code = ConditionExample(1)) => state["x"] = 2
    /\ (pc = "idle" /\ code = ConditionExample(0)) => state["x"] = 99

\* witness: the example with x = 1 has finished; the else-branch was skipped
C5_Witness ==
    /\ pc = "idle"
    /\ code = ConditionExample(1)
    /\ taken = {<<2, TRUE>>}
    /\ trace = <<1, 2, 3>>
    /\ state["x"] = 2

-----------------------------------------------------------------------------
(* C6: a fence is a full barrier: an instruction emitted after a fence of  *)
(* its batch is executed only after every instruction emitted before that  *)
(* fence, whatever order the controller picks.                             *)
C6_FenceIsBarrier ==
    \A b \in code.batches : \A i, f, j \in DOMAIN b :
        (/\ i < f /\ f < j
         /\ ~b[i].fence /\ b[f].fence /\ ~b[j].fence
         /\ b[j].id \in Range(trace))
        => /\ b[i].id \in Range(trace)
           /\ Pos(b[i].id) < Pos(b[j].id)

\* witness: batch a, fence, b, c executed as a, c, b
C6_Witness ==
    /\ pc = "idle"
    /\ \E b \in code.batches :
          /\ Len(b) = 4
          /\ {k \in DOMAIN b : b[k].fence} = {2}
          /\ trace = <<b[1].id, b[4].id, b[3].id>>

-----------------------------------------------------------------------------
\* the last step attempt ended in fail-step or in a raised fault
AttemptAborted ==
    /\ phase = "step"
    /\ \/ pc = "run" /\ events # <<>> /\ LastEvent.type = "StepFailed"
       \/ pc = "raised" /\ error \in {"UserError", "UnknownVariableError"}

(* C7: after a step attempt that ended in fail-step or in a raised fault,  *)
(* every <state> component and every <p> parameter holds the value it had  *)
(* before the attempt.                                                     *)
C7_AbortedStepLeavesStateUnchanged ==
    AttemptAborted =>
        \A k \in DOMAIN pre \cup DOMAIN state :
            (StartsWith(k, "<state>") \/ StartsWith(k, "<p>")) =>
                /\ k \in DOMAIN pre
                /\ k \in DOMAIN state
                /\ state[k] = pre[k]

-----------------------------------------------------------------------------
\* the keys that persist across steps
PersistentKey(k) ==
    k \in {"<t>", "<dt>"} \/ StartsWith(k, "<p>") \/ StartsWith(k, "<state>")

(* C8: when run yields StepCompleted or StepFailed, the state mapping      *)
(* holds exactly the persistent keys (<t>, <dt>, <p>..., <state>...) it    *)
(* held during the attempt: the ephemeral ones are deleted, no persistent  *)
(* one is.                                                                 *)
C8_OnlyPersistentKeysSurvive ==
    [][(/\ pc = "step"
        /\ pc' \in {"run", "done"}
        /\ events'[Len(events')].type \in {"StepCompleted", "StepFailed"})
       => DOMAIN state' = {k \in DOMAIN state : PersistentKey(k)}]_vars

\* witness: a failed attempt that had created the local tmp and kept <p>n
C8_Witness ==
    /\ pc = "run"
    /\ events # <<>>
    /\ LastEvent.type = "StepFailed"
    /\ 2 \in Range(trace)
    /\ code.insns[2].assignee = "tmp"
    /\ "tmp" \notin DOMAIN state
    /\ "<p>n" \in DOMAIN state

-----------------------------------------------------------------------------
(* C9: a fail-step never reaches the interpreter's caller as an error,     *)
(* neither from run nor from initialize.                                   *)
C9_FailStepNeverEscapes == error # "FailStepException"

-----------------------------------------------------------------------------
(* C10: a raise instruction executed during a step ends the run with the   *)
(* user fault at the caller: no event follows, and the attempt has neither *)
(* a StepCompleted nor a StepFailed event.                                 *)
C10_RaiseTerminatesRun ==
    (/\ phase = "step"
     /\ trace # <<>>
     /\ code.insns[trace[Len(trace)]].kind = "Raise")
    => /\ pc = "raised"
       /\ error = "UserError"
       /\ Cardinality(StepEvents) = attempts - 1

\* witness: the second attempt of a run raised, after one completed step
C10_Witness ==
    /\ phase = "step"
    /\ pc = "raised"
    /\ error = "UserError"
    /\ attempts = 2
    /\ events = <<StepCompleted(1)>>
    /\ code.insns[trace[Len(trace)]].kind = "Raise"

-----------------------------------------------------------------------------
\* a further call run(t_end), with <t> <= t_end, has been made on a plan in
\* which every attempt completes and advances <t> by <dt>
C11_Called ==
    /\ pc = "run"
    /\ attempts = 0
    /\ calls > 1
    /\ CompletesAndAdvances(code)
    /\ state["<t>"] <= t_end

C11_Ended ==
    /\ pc = "done"
    /\ calls > 1
    /\ events # <<>>
    /\ LastEvent = StepCompleted(t_end)

(* C11: run can be called again: after a call of run has returned, every   *)
(* further call run(t_end) with <t> <= t_end ends, and its last event is   *)
(* StepCompleted(t = t_end); this includes calls with t_end = <t>.         *)
C11_RunIsRestartable == [](C11_Called => <>C11_Ended)

-----------------------------------------------------------------------------
\* the instruction executed last in the current step attempt is a
\* return-observation instruction
C13_Observed ==
    /\ pc = "step"
    /\ trace # <<>>
    /\ code.insns[trace[Len(trace)]].kind = "ReturnState"

\* the attempt has ended with its step event, a completed one after every
\* instruction of the plan
C13_AttemptEnded ==
    /\ pc \in {"run", "done"}
    /\ events # <<>>
    /\ LastEvent.type \in {"StepCompleted", "StepFailed"}
    /\ LastEvent.type = "StepCompleted" =>
          Closure(code, SelectedGoals) \subseteq Range(trace)

(* C13: executing a return-observation instruction during a step yields    *)
(* exactly one StateComputed event, whose time and value are the           *)
(* instruction's expressions evaluated in the state of that moment and     *)
(* whose label and component are the instruction's; the run is not halted: *)
(* the state and the rest of the plan are kept, and the attempt goes on to *)
(* its StepCompleted or StepFailed event.                                  *)
C13_ObservationIsDelivered ==
    /\ [][\A i \in DOMAIN code.insns :
            (/\ pc = "step"
             /\ code.insns[i].kind = "ReturnState"
             /\ trace' = Append(trace, i))
            => LET insn == code.insns[i]
                   event == StateComputed(Eval(insn.time, state),
                                          insn.time_id, insn.component_id,
                                          Eval(insn.expression, state))
               IN  /\ \/ events' = Append(events, event)
                      \/ /\ Len(events) = EventWindow
                         /\ events' = Append(Tail(events), event)
                   /\ pc' = "step"
                   /\ plan' = plan \ {i}
                   /\ state' = state]_vars
    /\ [](C13_Observed => <>C13_AttemptEnded)

\* witness: the accepted step of the adaptive plan has reported the state
\* at t_end, then advanced <t> and completed
C13_Witness ==
    /\ code = AdaptiveCode
    /\ pc = "done"
    /\ trace = <<1, 4, 5>>
    /\ Len(events) >= 2
    /\ events[Len(events) - 1] =
          StateComputed(t_end, "final", "slow", state["<state>slow"])
    /\ LastEvent = StepCompleted(t_end)

-----------------------------------------------------------------------------
\* the component names given to set_up that bear a reserved prefix
C14_ReservedNames ==
    {n \in DOMAIN args.state :
        \E prefix \in {"<t>", "<dt>", "<p>", "<state>", "<func>"} :
            StartsWith(n, prefix)}

(* C14: set_up raises an error when a component name bears a reserved      *)
(* prefix; when it returns, the state mapping holds t_start under <t>,     *)
(* dt_start under <dt> and the value of every component under             *)
(* <state> + name, and nothing else.                                       *)
C14_SetUpStoresComponents ==
    /\ (pc # "new" /\ C14_ReservedNames # {}) =>
          (pc = "raised" /\ error = "ValueError")
    /\ pc = "set_up" =>
          /\ DOMAIN state =
                {"<t>", "<dt>"} \cup {"<state>" \o n : n \in DOMAIN args.state}
          /\ state["<t>"] = args.t_start
          /\ state["<dt>"] = args.dt_start
          /\ \A n \in DOMAIN args.state :
                state["<state>" \o n] = args.state[n]

\* witness: set_up(1, 2, {slow: 0, fast: 1}) has returned
C14_Witness ==
    /\ pc = "set_up"
    /\ args = [t_start |-> 1, dt_start |-> 2,
               state |-> [n \in {"slow", "fast"} |->
                            IF n = "slow" THEN 0 ELSE 1]]
    /\ state["<state>fast"] = 1
    /\ state["<t>"] = 1

-----------------------------------------------------------------------------
\* the table of unify: the kind of a pair of kinds, None where the pair is
\* an error
C16_Table(a, b) ==
    CASE a.tag = "Scalar" /\ b.tag = "Scalar" ->
            Scalar(a.is_real_valued /\ b.is_real_valued)
      [] {a.tag, b.tag} \in {{"Scalar", "Array"}, {"Array"}} ->
            Array(a.is_real_valued /\ b.is_real_valued)
      [] a.tag = "Scalar" /\ b.tag = "ODEComponent" -> b
      [] a.tag = "ODEComponent" /\ b.tag = "Scalar" -> a
      [] a.tag = "ODEComponent" /\ a = b -> a
      [] OTHER -> None

(* C16: for every pair of kinds, unify returns the kind the table gives    *)
(* and raises an error where the table has none: Scalar with Scalar is     *)
(* Scalar, Scalar or Array with Array is Array, each real-valued when both *)
(* are; Scalar with ODEComponent(c), and ODEComponent(c) with itself, is   *)
(* ODEComponent(c); every other pair is an error.                          *)
C16_UnifyFollowsTable ==
    (unified # NotCalled /\ kind_a \in Kinds /\ kind_b \in Kinds) =>
        IF C16_Table(kind_a, kind_b) = None THEN IsError(unified)
        ELSE unified = C16_Table(kind_a, kind_b)

\* witness: unify(Scalar(real), Array(complex)) returned Array(complex)
C16_Witness ==
    /\ kind_a = Scalar(TRUE)
    /\ kind_b = Array(FALSE)
    /\ unified = Array(FALSE)

(* C17: unify raises an error whenever one of its arguments is Boolean,    *)
(* whether the other argument is a kind or the None seed of a fold.        *)
C17_BooleanNeverUnifies ==
    (unified # NotCalled /\ Boolean \in {kind_a, kind_b}) => IsError(unified)

(* C18: on Scalar and Array arguments unify is commutative: unify(a, b)    *)
(* and unify(b, a) return equal kinds.                                     *)
C18_UnifyCommutes ==
    (/\ unified # NotCalled
     /\ {kind_a, kind_b} \subseteq
           {Scalar(TRUE), Scalar(FALSE), Array(TRUE), Array(FALSE)})
    => /\ ~IsError(unified)
       /\ unified = unify(kind_b, kind_a)

\* witness: unify(Array(real), Scalar(complex)) returned Array(complex)
C18_Witness ==
    /\ kind_a = Array(TRUE)
    /\ kind_b = Scalar(FALSE)
    /\ unified = Array(FALSE)

-----------------------------------------------------------------------------
\* the solver is about to call set for the assignee of the popped
\* instruction
C15_SetIsCalled ==
    /\ solver = "running"
    /\ Queue # <<>>
    /\ Swaps => made_progress
    /\ Popped.insn.kind = "AssignExpression"
    /\ ~IsException(Inferred)

(* C15: a kind recorded for a name, in the global table or in a function's *)
(* table, is never changed or removed; a later set for that name with an   *)
(* equal kind leaves the table as it is, one with a different kind raises  *)
(* an error and leaves the table as it is.                                 *)
C15_RecordedKindsAreFinal ==
    [][/\ \A n \in DOMAIN result.global_table :
             /\ n \in DOMAIN result'.global_table
             /\ result'.global_table[n] = result.global_table[n]
       /\ \A f \in DOMAIN result.per_function_table :
             /\ f \in DOMAIN result'.per_function_table
             /\ \A n \in DOMAIN result.per_function_table[f] :
                   /\ n \in DOMAIN result'.per_function_table[f]
                   /\ result'.per_function_table[f][n] =
                         result.per_function_table[f][n]
       /\ (/\ C15_SetIsCalled
           /\ get(result, Popped.func, Popped.insn.assignee)
                 # Raised("KeyError"))
          => /\ result' = result
             /\ solver' =
                   IF get(result, Popped.func, Popped.insn.assignee) = Inferred
                   THEN "running" ELSE "inconsistent kind"]_vars

\* witness: x of function f is recorded as a real scalar and the set of a
\* complex scalar for it has raised
C15_Witness ==
    /\ solver = "inconsistent kind"
    /\ get(result, "f", "x") = Scalar(TRUE)
    /\ \E k \in DOMAIN program :
          /\ program[k].func = "f"
          /\ program[k].insn.assignee = "x"
          /\ program[k].insn.expression = ComplexConst

-----------------------------------------------------------------------------
\* a step of the solver that goes on with the loop
C19_Iterates == solver = "running" /\ solver' = "running" /\ vars' # vars

\* an instruction whose kind cannot be inferred yet goes to the overflow
\* buffer, and the buffer is the queue of the next pass
C19_DefersAndRetries ==
    [][/\ (/\ C19_Iterates
           /\ Popped.insn.kind = "AssignExpression"
           /\ Inferred = UnableToInferKind)
          => /\ insn_queue_push_buffer' # <<>>
             /\ insn_queue_push_buffer'[Len(insn_queue_push_buffer')] = Popped
       /\ (C19_Iterates /\ insn_queue = <<>>)
          => Append(insn_queue', Popped) = insn_queue_push_buffer]_vars

\* the fatal error is raised exactly when the queue is empty, the buffer is
\* not, and the pass recorded no kind; no instruction left is inferable then
C19_FailsExactlyWhenStuck ==
    [][/\ (/\ solver = "running"
           /\ insn_queue = <<>>
           /\ insn_queue_push_buffer # <<>>
           /\ recorded = 0)
          <=> (solver = "running" /\ solver' = "failed to infer types")
       /\ solver' = "failed to infer types" =>
             \A k \in DOMAIN insn_queue_push_buffer' :
                 KindInferenceMapper(
                     insn_queue_push_buffer'[k].insn.expression,
                     result'.global_table,
                     LocalTable(result', insn_queue_push_buffer'[k].func))
                 = UnableToInferKind]_vars

\* a table is returned only when both queues are empty, and it holds a kind
\* for the assignee of every assignment
C19_ReturnedTableIsComplete ==
    [](solver = "returned" =>
          /\ insn_queue = <<>>
          /\ insn_queue_push_buffer = <<>>
          /\ \A k \in DOMAIN program :
                program[k].insn.kind = "AssignExpression" =>
                    get(result, program[k].func, program[k].insn.assignee)
                        \in Kinds)

(* C19: the solver sends every instruction it cannot infer yet to the      *)
(* overflow buffer and tries it again in the next pass; it raises 'failed  *)
(* to infer types' exactly when the queue is empty, the buffer is not and  *)
(* the pass recorded no kind; it returns only when both queues are empty,  *)
(* and then the assignee of every assignment has a recorded kind.          *)
C19_SolverPasses ==
    /\ C19_DefersAndRetries
    /\ C19_FailsExactlyWhenStuck
    /\ C19_ReturnedTableIsComplete

-----------------------------------------------------------------------------
(* C20: the solver terminates on every program: it returns or it raises;   *)
(* a pass that ends without an error leaves fewer instructions than it     *)
(* started with.                                                           *)
C20_SolverTerminates ==
    /\ <>(solver # "running")
    /\ [][(/\ solver = "running"
            /\ solver' # "failed to infer types"
            /\ insn_queue = <<>>
            /\ pass_size > 0
            /\ vars' # vars)
           => Len(insn_queue_push_buffer) < pass_size]_vars

\* witness: y := x + z was deferred in the first pass of <<x := 1,
\* y := x + z>>, inferred in the second, and the solver has returned
C20_Witness ==
    /\ solver = "returned"
    /\ Len(program) = 2
    /\ program[2].insn.expression = Sum("x", "z")
    /\ pass_size = 1
    /\ get(result, "f", "y") = Scalar(TRUE)

-----------------------------------------------------------------------------
\* what executing the emitted assignments raised, or NoValue
AssignmentFailure ==
    IF \E n \in DOMAIN ret_assignments :
           EvaluationMapper(ret_assignments[n], arg_context,
                            arg_functions).tag = "raised"
    THEN EvaluationMapper(
             ret_assignments[CHOOSE n \in DOMAIN ret_assignments :
                 EvaluationMapper(ret_assignments[n], arg_context,
                                  arg_functions).tag = "raised"],
             arg_context, arg_functions)
    ELSE NoValue

\* the value of the original expression under the binding
OriginalValue == EvaluationMapper(arg_expression, arg_context, arg_functions)

\* the value of the returned expression once the emitted assignments were
\* executed under the binding
CollapsedValue ==
    IF AssignmentFailure # NoValue THEN AssignmentFailure
    ELSE EvaluationMapper(ret_new_expression,
                          Executed(ret_assignments, arg_context,
                                   arg_functions),
                          arg_functions)

\* a sum or product somewhere in e has one child only, and that child is
\* not constant
RECURSIVE LoneNonConstant(_, _)
LoneNonConstant(e, free) ==
    \/ /\ e.op \in {"sum", "product"}
       /\ Len(e.children) = 1
       /\ ~is_constant(e.children[1], free)
    \/ \E k \in DOMAIN e.children : LoneNonConstant(e.children[k], free)

(* C21: for every expression built from constants, variables, sums,        *)
(* products, quotients and powers, every free-variable set and every       *)
(* binding, collapse_constants returns an expression whose value, once the *)
(* emitted assignments were executed, is the value of the original.        *)
C21_CollapsePreservesValue ==
    called = "collapse_constants" /\ returned =>
        raised_exception = "" /\ CollapsedValue = OriginalValue

\* apart from the sums and products of one non-constant child, on which
\* collapse_constants raises, the call returns and the value is preserved
CollapsePreservesValueWhenItReturns ==
    called = "collapse_constants" /\ returned =>
        IF LoneNonConstant(arg_expression, arg_free_variables)
        THEN raised_exception = "AttributeError"
        ELSE raised_exception = "" /\ CollapsedValue = OriginalValue

\* a call that folded a group of constants into an assignment and returned
CollapseFolded ==
    /\ called = "collapse_constants" /\ returned /\ raised_exception = ""
    /\ DOMAIN ret_assignments # {}
    /\ ret_new_expression.op \in {"sum", "product"}

-----------------------------------------------------------------------------
-----------------------------------------------------------------------------
\* the value a call gives the keyword key
KeywordValue(kw_parameters, key) ==
    kw_parameters[CHOOSE k \in DOMAIN kw_parameters :
                      kw_parameters[k].key = key].val

\* under the binding m, the template's parameter t is the expression's
\* parameter e: a free variable is bound to e, anything else is e itself
Instantiates(t, e, m) ==
    IF t.op = "variable" /\ t.name \in arg_free_variables
    THEN t.name \in DOMAIN m /\ m[t.name] = e
    ELSE t = e

\* m is one binding of the free variables under which the two calls agree:
\* same callee, positional parameters pair by pair, keyword parameters
\* name by name
ConsistentBinding(m) ==
    /\ arg_template.name = arg_expression.name
    /\ Len(arg_template.children) = Len(arg_expression.children)
    /\ KeySet(arg_template.kw_parameters)
         = KeySet(arg_expression.kw_parameters)
    /\ \A k \in DOMAIN arg_template.children :
           Instantiates(arg_template.children[k],
                        arg_expression.children[k], m)
    /\ \A key \in KeySet(arg_template.kw_parameters) :
           Instantiates(KeywordValue(arg_template.kw_parameters, key),
                        KeywordValue(arg_expression.kw_parameters, key), m)

\* every binding of free variables to parameters of the expression
Bindable ==
    LET parameters ==
            {arg_expression.children[k] : k \in DOMAIN arg_expression.children}
            \cup {arg_expression.kw_parameters[k].val :
                      k \in DOMAIN arg_expression.kw_parameters}
    IN  UNION {[S -> parameters] : S \in SUBSET arg_free_variables}

(* C24: match unifies two calls only when callee, number of positional     *)
(* parameters and set of keyword names agree; the mapping it returns binds *)
(* the template's free variables consistently across the positional pairs  *)
(* (by position) and the keyword pairs (by name, whatever the order the    *)
(* keywords were written in); when no consistent binding exists it raises  *)
(* an error and returns no mapping.                                        *)
C24_MatchUnifiesCalls ==
    called = "match" /\ returned =>
        /\ raised_exception = "" => ConsistentBinding(ret_mapping)
        /\ raised_exception # "" =>
               raised_exception = "ValueError" /\ ret_mapping = EmptyDict
        /\ (\A m \in Bindable : ~ConsistentBinding(m)) =>
               raised_exception = "ValueError"

\* a match of two calls whose keywords were written in opposite orders,
\* which bound both free variables
C24_Witness ==
    /\ called = "match" /\ returned /\ raised_exception = ""
    /\ Len(arg_template.kw_parameters) = 2
    /\ arg_template.kw_parameters[1].key
         = arg_expression.kw_parameters[2].key
    /\ arg_template.kw_parameters[1].val # arg_template.kw_parameters[2].val
    /\ arg_expression.kw_parameters[1].val
         # arg_expression.kw_parameters[2].val
    /\ DOMAIN ret_mapping = {"a", "b"}

-----------------------------------------------------------------------------
(* C25: the evaluation of a variable takes its value from the context when *)
(* the name is there (also when it is in the function table too),          *)
(* otherwise yields the function of that name from the function table,     *)
(* and yields "no value", without raising, when the name is in neither.    *)
C25_VariableResolution ==
    called = "evaluate" /\ returned /\ arg_expression.op = "variable" =>
        LET name == arg_expression.name
        IN  /\ raised_exception = ""
            /\ name \in DOMAIN arg_context => ret_value = arg_context[name]
            /\ name \notin DOMAIN arg_context /\ name \in DOMAIN arg_functions
                   => ret_value = arg_functions[name]
                        /\ ret_value.tag = "function"
            /\ name \notin DOMAIN arg_context
                   /\ name \notin DOMAIN arg_functions
                   => ret_value = NoValue

\* a name that is in both tables was evaluated, and the context won
C25_Witness ==
    /\ called = "evaluate" /\ returned
    /\ arg_expression.op = "variable"
    /\ arg_expression.name \in DOMAIN arg_context
    /\ arg_expression.name \in DOMAIN arg_functions
    /\ ret_value.tag = "number"

-----------------------------------------------------------------------------
\* the controller is running a plan
ControllerRuns == pc \in {"initialize", "step"}

\* what the goals and the selected branches reach and is not yet executed
Remaining == Closure(code, SelectedGoals) \ executed

\* the run of the controller is over; when no handler raised, everything
\* the goals and the selected branches reach was executed
C26_Terminal ==
    /\ ~ControllerRuns
    /\ PlanFinished => Closure(code, SelectedGoals) \subseteq executed

(* C26: a run of the controller on a finite acyclic plan reaches the       *)
(* terminal condition: an instruction without dependencies is ready as     *)
(* soon as it is planned; while an instruction reachable from the goals    *)
(* through the selected branches is unexecuted, some instruction is ready; *)
(* the run ends, and when no handler raised it ends with all of them       *)
(* executed.                                                               *)
C26_ControllerReachesTerminal ==
    /\ [](ControllerRuns =>
            /\ \A i \in plan : code.insns[i].depends_on = {} =>
                   Ready(code, plan, executed, i)
            /\ Remaining # {} =>
                   \E i \in Remaining : Ready(code, plan, executed, i))
    /\ [](ControllerRuns => <>C26_Terminal)

\* a step plan with a conditional has run to its end: the branch was
\* selected, the observation made, <t> advanced
C26_Witness ==
    /\ phase = "step" /\ pc = "done"
    /\ code = AdaptiveCode
    /\ trace = <<1, 4, 5>>
    /\ Remaining = {}

-----------------------------------------------------------------------------
\* the call of the solver has ended
SolverEnded == solver \notin {"idle", "running"}

\* the orders the instructions of the program can be given in
Reorderings(seq) ==
    {[k \in DOMAIN seq |-> seq[f[k]]] :
        f \in {g \in [DOMAIN seq -> DOMAIN seq] :
                   \A i, j \in DOMAIN seq : g[i] = g[j] => i = j}}

\* the loop, run step by step, ends as the solver as a whole does
SolverAgrees ==
    SolverEnded =>
        SymbolKindFinder(program, <<>>, FALSE, SymbolKindTable)
            = Solved(solver, result)

(* C27: the table the solver returns does not depend on the order of the   *)
(* instructions: given the instructions of the program in any other order, *)
(* the solver fails if it failed on this one, and otherwise returns the    *)
(* same kind for every symbol.                                             *)
C27_OrderIndependent ==
    SolverEnded =>
        \A other \in Reorderings(program) :
            LET o == SymbolKindFinder(other, <<>>, FALSE, SymbolKindTable)
            IN  /\ (o.solver = "returned") = (solver = "returned")
                /\ solver = "returned" => o.result = result

-----------------------------------------------------------------------------
(* C28 *)

\* the kinds of the children whose own inference returns instead of
\* signalling that it cannot infer yet, in the order of the children
InferableKinds(e, global_table, local_table) ==
    LET ch == Children(e)
        kinds == [i \in 1..Len(ch) |->
                      RecLeaf(ch[i], global_table, local_table)]
    IN  SelectSeq(kinds, LAMBDA k : k # UnableToInferKind)

\* unify over a sequence of kinds, from the left, starting from kind
RECURSIVE Unification(_, _)
Unification(kind, kinds) ==
    IF kinds = <<>> THEN kind
    ELSE IF IsError(unify(kind, Head(kinds))) THEN unify(kind, Head(kinds))
    ELSE Unification(unify(kind, Head(kinds)), Tail(kinds))

\* no name is recorded with None
TablesHoldKinds ==
    /\ \A n \in DOMAIN kim_global_table : kim_global_table[n] \in Kinds
    /\ \A n \in DOMAIN kim_local_table : kim_local_table[n] \in Kinds

SumAndProductInference ==
    LET inferable == InferableKinds(kim_expr, kim_global_table,
                                    kim_local_table)
    IN  /\ kim_expr.op \in {"sum", "sumc"} =>
            /\ (kim_kind = UnableToInferKind) <=> (inferable = <<>>)
            /\ inferable # <<>> => kim_kind = Unification(None, inferable)
        /\ kim_expr.op \in {"product", "quotient"} =>
            (Len(inferable) < Len(Children(kim_expr))
                => kim_kind = UnableToInferKind)

\* C28: the inference of a sum returns the unification of the kinds of
\* exactly the children that are inferable, and signals that it cannot infer
\* yet if and only if no child is inferable; the inference of a product or of
\* a quotient signals it as soon as one operand is not inferable.
C28_SumAndProductInference ==
    kim_kind # NotCalled => SumAndProductInference

\* the same, for the tables in which every recorded name has a kind
SumAndProductInferenceOfKinds ==
    kim_kind # NotCalled /\ TablesHoldKinds => SumAndProductInference

-----------------------------------------------------------------------------
(* C29 *)

\* C29: every kind the solver records, in the global table or in the table
\* of a function, is one of Boolean, Scalar, Array and ODEComponent; no
\* symbol is recorded with an absent kind.
C29_RecordedKindsAreKinds ==
    /\ \A n \in DOMAIN result.global_table : result.global_table[n] \in Kinds
    /\ \A f \in DOMAIN result.per_function_table :
          \A n \in DOMAIN result.per_function_table[f] :
              result.per_function_table[f][n] \in Kinds

-----------------------------------------------------------------------------
(* C30 *)

\* the <dt> the last attempt started with, after the clamp
StartedWith ==
    IF pre["<t>"] + pre["<dt>"] >= t_end
    THEN t_end - pre["<t>"] ELSE pre["<dt>"]

\* run was called with <t> <= t_end, or the attempt that has just ended
\* advanced <t> by at most the <dt> it started with
WithinStep ==
    IF attempts = 0 THEN state["<t>"] <= t_end
    ELSE state["<t>"] <= pre["<t>"] + StartedWith

\* C30: at the top of the loop of run(t_end), when run was called with
\* <t> <= t_end and the attempts advance <t> by at most the <dt> they started
\* with, the assertion does not fail and the attempt starts, after the clamp,
\* with <t> <= t_end and <t> + <dt> <= t_end.
C30_ClampKeepsWithinTEnd ==
    [][pc = "run" /\ WithinStep =>
          /\ pc' = "step"
          /\ error' # "AssertionError"
          /\ state'["<t>"] <= t_end
          /\ state'["<t>"] + state'["<dt>"] <= t_end]_vars

\* witness: run(3) from <t> = 0 with <dt> = 2; the second attempt starts at
\* <t> = 2 with <dt> clamped from 2 to 1
C30_Witness ==
    /\ pc = "step"
    /\ trace = <<>>
    /\ attempts = 2
    /\ t_end = 3
    /\ pre["<t>"] = 2
    /\ pre["<dt>"] = 2
    /\ state["<t>"] = 2
    /\ state["<dt>"] = 1

-----------------------------------------------------------------------------
(* C31 *)

\* the consumer holds a StateComputed event of the attempt that is running
DeliveredInAttempt ==
    /\ pc = "step"
    /\ events # <<>>
    /\ events[Len(events)].type = "StateComputed"

\* C31: run hands an event of an attempt to its consumer only once no
\* instruction of that attempt remains to be executed.
C31_NoEventWithinAttempt ==
    DeliveredInAttempt => plan = {}

-----------------------------------------------------------------------------
(* C32 *)

\* this step of the run call hands one more event to the consumer
Delivers == pc = "step" /\ events' # events

\* the event handed over
Delivered == events'[Len(events')]

\* the attempts of the call so far: a StateComputed event belongs to an
\* attempt that goes on, StepFailed ends the attempt and the loop goes on,
\* StepCompleted ends it and ends the call exactly when the step was the last
AttemptsInTurn ==
    Delivers =>
        /\ events' = Yield(events, Delivered)
        /\ Delivered.type \in {"StateComputed", "StepCompleted", "StepFailed"}
        /\ Delivered.type = "StateComputed" => pc' = "step"
        /\ Delivered.type = "StepFailed" => pc' = "run"
        /\ Delivered.type = "StepCompleted" => pc' \in {"run", "done"}

\* the loop has come round after a StepFailed event
AfterStepFailed ==
    /\ pc = "run"
    /\ events # <<>>
    /\ LastEvent.type = "StepFailed"

(* C32: the events of a run call come attempt by attempt, StateComputed    *)
(* events and then one StepCompleted or StepFailed; the call returns right *)
(* after a StepCompleted, so no StateComputed follows the last one, and    *)
(* after a StepFailed a further attempt starts.                            *)
C32_EventsComeInAttempts ==
    /\ [][AttemptsInTurn]_vars
    /\ [](pc = "done" => events # <<>> /\ LastEvent.type = "StepCompleted")
    /\ [][AfterStepFailed => pc' = "step" /\ attempts' = Count(attempts)]_vars

\* witness: run has returned after an attempt that failed and one that
\* completed, each with its StateComputed event
C32_Witness ==
    /\ pc = "done"
    /\ Len(events) = 4
    /\ events[1].type = "StateComputed"
    /\ events[2].type = "StepFailed"
    /\ events[3].type = "StateComputed"
    /\ events[4].type = "StepCompleted"

-----------------------------------------------------------------------------
(* C33 *)

\* the step plan has been executed to its end
StepExecuted == pc = "step" /\ plan = {}

\* the history holds what the attempt found in it, moved on by one slot,
\* and the right-hand side computed from what the attempt found
Rotated(hist) ==
    /\ \A i \in 2..Len(hist) : state[hist[i]] = pre[hist[i - 1]]
    /\ state[hist[1]] = Eval(RightHandSide, pre)

\* C33: once the instructions of a history update have executed, in
\* whatever order the controller has chosen, every slot but the newest
\* holds the value its newer neighbour had before the update and the
\* newest slot holds the newly computed right-hand side.
C33_HistoryRotates ==
    \A order \in 1..MaxOrder :
        code = HistoryCode(order) /\ StepExecuted => Rotated(Histories(order))

\* witness: the second update of a history of three slots has executed
C33_Witness ==
    /\ code = HistoryCode(3)
    /\ StepExecuted
    /\ attempts = 2
    /\ pre["<p>f2f_n"] = 10
    /\ pre["<p>f2f_n_minus_1"] = 1
    /\ state["<p>f2f_n"] = 11
    /\ state["<p>f2f_n_minus_1"] = 10
    /\ state["<p>f2f_n_minus_2"] = 1

-----------------------------------------------------------------------------
(* C34 *)

\* the step that is running has taken the Runge-Kutta startup branch
StartupTaken == <<2, TRUE>> \in taken

\* the step that is running has taken the Adams-Bashforth branch
MethodTaken == <<2, FALSE>> \in taken \/ code = TwoRateCode(1)

\* <p>step over the steps of the two-rate code of the given order
StepCounter(max_order) ==
    /\ "<p>step" \in DOMAIN state => state["<p>step"] \in 0..(max_order - 1)
    /\ pc = "idle" => state["<p>step"] = 0
    /\ pc = "step" /\ StartupTaken => pre["<p>step"] < max_order - 1
    /\ pc = "step" /\ MethodTaken =>
          /\ pre["<p>step"] = max_order - 1
          /\ state["<p>step"] = pre["<p>step"]
    /\ StepExecuted /\ StartupTaken =>
          state["<p>step"] = pre["<p>step"] + 1

\* once set, <p>step stays in the state mapping and does not decrease
CounterNeverDrops ==
    code \in TwoRateCodes /\ "<p>step" \in DOMAIN state =>
        /\ "<p>step" \in DOMAIN state'
        /\ state'["<p>step"] >= state["<p>step"]

(* C34: in the two-rate Adams-Bashforth code the initialization sets       *)
(* <p>step to 0, a step through the startup branch adds exactly one to it, *)
(* a step of the Adams-Bashforth method leaves it alone, and it never      *)
(* exceeds max_order - 1; the startup branch is taken only below that      *)
(* value and the method only at it, so the startup steps are the first     *)
(* max_order - 1 steps.                                                    *)
C34_StartupStepsCounted ==
    /\ [](\A max_order \in 1..MaxOrder :
            code = TwoRateCode(max_order) => StepCounter(max_order))
    /\ [][CounterNeverDrops]_vars

\* witness: with max_order = 3, the first step of the Adams-Bashforth
\* method has been executed after two startup steps
C34_Witness ==
    /\ code = TwoRateCode(3)
    /\ StepExecuted
    /\ MethodTaken
    /\ attempts = 3
    /\ state["<p>step"] = 2

-----------------------------------------------------------------------------
(* C35 *)

\* the instructions that assign name
Writers(name) ==
    {i \in DOMAIN code.insns : code.insns[i].assignee = name}

\* the step has updated name and will not assign it again
Updated(name) ==
    /\ Writers(name) \cap executed # {}
    /\ Writers(name) \cap plan = {}

\* a StateComputed event of the epilogue: <t> is still the <t> the step
\* started with, the event carries that <t> plus <dt>, and the slow and the
\* fast state have been updated
ReportedBeforeAdvance ==
    /\ state["<t>"] = pre["<t>"]
    /\ Delivered.t = pre["<t>"] + state["<dt>"]
    /\ Delivered.component_id \in {"slow", "fast"}
    /\ Updated("<state>slow")
    /\ Updated("<state>fast")
    /\ Delivered.state_component =
          state["<state>" \o Delivered.component_id]

\* the StepCompleted event of the step: it follows the two StateComputed
\* events and carries their time
CompletedAtReportedTime ==
    LET n == Len(events)
    IN  /\ n >= 2
        /\ {events[n - 1].component_id, events[n].component_id}
              = {"slow", "fast"}
        /\ \A k \in {n - 1, n} :
              /\ events[k].type = "StateComputed"
              /\ events[k].t = Delivered.t
        /\ Delivered.t = pre["<t>"] + state["<dt>"]

EpilogueReports ==
    code \in TwoRateCodes /\ Delivers =>
        /\ Delivered.type = "StateComputed" => ReportedBeforeAdvance
        /\ Delivered.type = "StepCompleted" => CompletedAtReportedTime
        /\ Delivered.type # "StepFailed"

-----------------------------------------------------------------------------
(* C36 *)

\* the solver has raised
SolverRaised == solver \notin {"idle", "running", "returned"}

\* the iteration at hand is one whose inference or whose recording fails
HardKindError ==
    /\ solver = "running"
    /\ Queue # <<>>
    /\ Swaps => made_progress
    /\ Popped.insn.kind = "AssignExpression"
    /\ \/ IsError(Inferred)
       \/ /\ ~IsException(Inferred)
          /\ set(result, Popped.func, Popped.insn.assignee, Inferred).raised

\* a hard kind error ends the run, and a run that has raised does nothing
\* more: it records no kind and it does not return
InferenceAborts ==
    /\ HardKindError => solver' \notin {"running", "returned"}
    /\ SolverRaised => solver' = solver /\ result' = result

\* collapse_constants has raised
CollapseFailed ==
    called = "collapse_constants" /\ returned /\ raised_exception # ""

(* C36: a hard kind error aborts the whole inference run and the run       *)
(* returns no table; when collapse_constants fails, assign_func has        *)
(* received no assignment.                                                 *)
C36_NoPartialResults ==
    /\ [][InferenceAborts]_vars
    /\ [](CollapseFailed => ret_assignments = EmptyDict)

\* witness: collapse_constants has raised on an expression in which the
\* mapper had found a constant to assign before it failed
C36_Witness ==
    /\ CollapseFailed
    /\ ExpressionCollapsingMapper(arg_expression,
                                  arg_free_variables).assignments # EmptyDict

-----------------------------------------------------------------------------
(* C37 *)

\* collapse_constants was called on a sum or product with children
CollapsedCombination ==
    /\ called = "collapse_constants" /\ returned
    /\ arg_expression.op \in {"sum", "product"}
    /\ arg_expression.children # <<>>

\* the children of the expression that are constant, and the others
ConstantChildren ==
    SelectSeq(arg_expression.children,
              LAMBDA child : is_constant(child, arg_free_variables))
NonConstantChildren ==
    SelectSeq(arg_expression.children,
              LAMBDA child : ~is_constant(child, arg_free_variables))

\* what the call returned, by the constant and non-constant children
CombinationReturned ==
    /\ ret_new_expression.op \in {"sum", "product"} =>
          Len(ret_new_expression.children) >= 2
    /\ NonConstantChildren = <<>> => is_atomic(ret_new_expression)
    /\ ConstantChildren = <<>> /\ Len(NonConstantChildren) > 1 =>
          /\ ret_new_expression.op = arg_expression.op
          /\ Len(ret_new_expression.children) = Len(NonConstantChildren)
    /\ ConstantChildren = <<>> /\ Len(NonConstantChildren) = 1 =>
          ret_new_expression =
              Collapsing_rec(NonConstantChildren[1], arg_free_variables,
                             EmptyDict).expr

\* C37: on a sum or product with children collapse_constants does not fail
\* and returns no sum or product of fewer than two children: the folded
\* constant alone when no child is non-constant, the combination of the
\* non-constant children when there are several and no constant, and the
\* processed child when it is the only child and not constant.
C37_NoDegenerateCombination ==
    CollapsedCombination => raised_exception = "" /\ CombinationReturned

\* whenever the call returns, it returns what the sentence says
CombinationWhenItReturns ==
    CollapsedCombination /\ raised_exception = "" =>
        /\ CombinationReturned
        /\ ~(ConstantChildren = <<>> /\ Len(NonConstantChildren) = 1)

-----------------------------------------------------------------------------
(* C38 *)

\* set_up raises on a component name
SetUpRejects == pc = "new" /\ pc' = "raised" /\ error' = "ValueError"

\* C38: a set_up call that rejects a component name leaves the state
\* mapping as it was before the call: <t>, <dt> and the <state> entries of
\* the call have not been written.
C38_RejectedSetUpWritesNothing ==
    [][SetUpRejects => state' = state]_vars

=============================================================================
